---- MODULE Spec2Model ----
(***************************************************************************)
(* Terminal session engine of the Signalforge terminal extension           *)
(* (src/terminal.c): raw-mode entry and exit, the five signal handlers,    *)
(* the buffered output path, the cursor / alternate-screen primitives,     *)
(* the size query, the spinner (Loader) start/stop and the select /        *)
(* multiSelect loops.                                                      *)
(*                                                                         *)
(* The main thread is a program counter `pc` over the steps of the         *)
(* operation in progress; a signal handler runs as one step.  Spec         *)
(* delivers signals only while the main thread is outside the engine or    *)
(* blocked waiting for a key (a sequence of operations and signals);       *)
(* SpecAsync delivers them between any two steps.                          *)
(***************************************************************************)
EXTENDS Integers, Sequences, FiniteSets, TLC

----------------------------------------------------------------------------
(* Bounds of the model *)

\* options offered to select() / multiSelect(): 0..MaxOptions
MaxOptions == 2
\* capacity of the output buffer (8192 in the build), scaled down
WRITE_BUFFER_SIZE == 8

----------------------------------------------------------------------------
(* termios: the line-discipline settings, as the flag words the code edits *)

IF_RAW_OFF == {"BRKINT", "ICRNL", "INPCK", "ISTRIP", "IXON"}
OF_RAW_OFF == {"OPOST"}
LF_RAW_OFF == {"ECHO", "ICANON", "IEXTEN", "ISIG"}
\* CS8 is both bits of the CSIZE field
CS8 == {"CSIZE_LO", "CSIZE_HI"}

\* pecalloc() zero-fills the state: the settings before any capture
ZeroTermios ==
  [iflag |-> {}, oflag |-> {}, cflag |-> {}, lflag |-> {}, vmin |-> 0, vtime |-> 0]

\* an ordinary cooked terminal
CookedTermios ==
  [iflag |-> {"BRKINT", "ICRNL", "IXON", "IUTF8"},
   oflag |-> {"OPOST", "ONLCR"},
   cflag |-> {"CSIZE_LO", "CSIZE_HI", "CREAD"},
   lflag |-> {"ECHO", "ICANON", "IEXTEN", "ISIG", "ECHOE"},
   vmin  |-> 1, vtime |-> 0]

\* a 7-bit line with parity checking and a read timer
SevenBitTermios ==
  [iflag |-> {"ICRNL", "INPCK", "ISTRIP"},
   oflag |-> {"OPOST"},
   cflag |-> {"CSIZE_HI", "CREAD", "PARENB"},
   lflag |-> {"ECHO", "ICANON", "ISIG"},
   vmin  |-> 1, vtime |-> 2]


\* the raw settings terminal_enter_raw derives from the captured ones
MakeRaw(t) ==
  [iflag |-> t.iflag \ IF_RAW_OFF,
   oflag |-> t.oflag \ OF_RAW_OFF,
   cflag |-> t.cflag \cup CS8,
   lflag |-> t.lflag \ LF_RAW_OFF,
   vmin  |-> 0, vtime |-> 0]

----------------------------------------------------------------------------
(* Output buffer: the pending bytes; write_buffer_pos is their number *)

Min(a, b) == IF a < b THEN a ELSE b

\* a flush that writes the pending bytes and leaves them in the buffer
FlushKeepsBuffer(buf) == buf

\* terminal_flush_buffer: one write(2) of the pending bytes, cursor to zero
FlushBuffer(buf) == << >>

RECURSIVE TerminalWrite(_, _)
\* terminal_write: copy in a loop, flushing whenever the buffer is full
TerminalWrite(buf, str) ==
  IF Len(str) = 0 THEN buf
  ELSE LET available == WRITE_BUFFER_SIZE - Len(buf)
           to_copy   == Min(Len(str), available)
           copied    == buf \o SubSeq(str, 1, to_copy)
           rest      == SubSeq(str, to_copy + 1, Len(str))
       IN  TerminalWrite(IF Len(copied) >= WRITE_BUFFER_SIZE
                           THEN FlushBuffer(copied) ELSE copied,
                         rest)

\* escape sequences, as bytes
ESC == 27
SeqCursorShow == <<ESC, 91, 63, 50, 53, 104>>
SeqCursorHide == <<ESC, 91, 63, 50, 53, 108>>
SeqAltEnter   == <<ESC, 91, 63, 49, 48, 52, 57, 104>>
SeqAltLeave   == <<ESC, 91, 63, 49, 48, 52, 57, 108>>
\* "\r" ESC [ K
SeqEraseLine  == <<13, ESC, 91, 75>>
\* ESC [ n A, n one digit
SeqCursorUp(n) == <<ESC, 91, 48 + n, 65>>

\* terminal_cursor_up: nothing for n <= 0
CursorUp(buf, n) == IF n > 0 THEN TerminalWrite(buf, SeqCursorUp(n)) ELSE buf

\* the bytes terminal_write(str) hands to write(2) through its flushes of a
\* full buffer: all of buf and str but what stays in the buffer
Delivered(buf, str) ==
  SubSeq(buf \o str, 1, Len(buf) + Len(str) - Len(TerminalWrite(buf, str)))

\* a run of writes: the buffer, and the bytes handed to write(2) so far
OutStart(buf) == [buf |-> buf, out |-> << >>]
Out(st, str) ==
  [buf |-> TerminalWrite(st.buf, str), out |-> st.out \o Delivered(st.buf, str)]
OutFlush(st) == [buf |-> FlushBuffer(st.buf), out |-> st.out \o st.buf]

RECURSIVE Joined(_)
\* the strings of strs, joined
Joined(strs) == IF strs = << >> THEN << >> ELSE Head(strs) \o Joined(Tail(strs))

\* the strings of strs written one after the other: terminal_write copies
\* bytes and flushes each time the buffer is full, so the calls leave what
\* one call with the joined strings leaves
OutAll(st, strs) == Out(st, Joined(strs))

\* faulty variant for C3: showing the cursor forgets to clear the flag
NoClearCursorShowFlags(f, visible) ==
  IF visible THEN f ELSE f \cup {"CURSOR_HIDDEN"}

\* terminal_cursor_show: the flags after it
CursorShowFlags(f, visible) ==
  IF visible THEN f \ {"CURSOR_HIDDEN"} ELSE f \cup {"CURSOR_HIDDEN"}

\* terminal_cursor_show: the buffer after it
CursorShowBuf(buf, visible) ==
  TerminalWrite(buf, IF visible THEN SeqCursorShow ELSE SeqCursorHide)

\* terminal_cursor_show: what its write hands to write(2)
CursorShowOut(buf, visible) ==
  Delivered(buf, IF visible THEN SeqCursorShow ELSE SeqCursorHide)

\* terminal_alternate_screen: the flags after it
AltScreenFlags(f, enable) ==
  IF enable THEN f \cup {"ALT_SCREEN"} ELSE f \ {"ALT_SCREEN"}

\* terminal_alternate_screen: the buffer after it
AltScreenBuf(buf, enable) ==
  TerminalWrite(buf, IF enable THEN SeqAltEnter ELSE SeqAltLeave)

----------------------------------------------------------------------------
(* Signals *)

SIGNALS == {"SIGWINCH", "SIGINT", "SIGTERM", "SIGTSTP", "SIGCONT"}

\* the order of the sigaction calls in setup and in restore
SigOrder == <<"SIGWINCH", "SIGINT", "SIGTERM", "SIGTSTP", "SIGCONT">>

\* the handler terminal_setup_signal_handlers installs for each signal
EngineHandler(sig) ==
  CASE sig = "SIGWINCH" -> "terminal_handle_sigwinch"
    [] sig = "SIGINT"   -> "terminal_handle_sigint"
    [] sig = "SIGTERM"  -> "terminal_handle_sigint"
    [] sig = "SIGTSTP"  -> "terminal_handle_sigtstp"
    [] sig = "SIGCONT"  -> "terminal_handle_sigcont"

\* the static orig_sig* structs are zero-filled: sa_handler 0 is SIG_DFL
ZeroSigactions == [s \in SIGNALS |-> "SIG_DFL"]

\* dispositions of a host that registered nothing
DefaultDispositions == [s \in SIGNALS |-> "SIG_DFL"]

\* dispositions of a host with its own SIGINT and SIGWINCH handlers that
\* ignores SIGTSTP
HostDispositions ==
  [s \in SIGNALS |-> IF s \in {"SIGINT", "SIGWINCH"} THEN "host_handler"
                     ELSE IF s = "SIGTSTP" THEN "SIG_IGN" ELSE "SIG_DFL"]

----------------------------------------------------------------------------
(* Window size and colour capability *)

\* what TIOCGWINSZ may report: (ws_col, ws_row)
OsSizes == { <<120, 40>>, <<0, 0>> }

\* a refresh that stores what the OS reported as it is
ReportedSize(cached, ioctl_ok, ws) == IF ioctl_ok THEN ws ELSE cached

\* terminal_update_size: the cached (cols, rows) after it
UpdateSize(cached, ioctl_ok, ws) ==
  IF ioctl_ok
    THEN << IF ws[1] > 0 THEN ws[1] ELSE 80, IF ws[2] > 0 THEN ws[2] ELSE 24 >>
    ELSE cached

\* environments: TERM as the set of substrings the code looks for in it,
\* COLORTERM as its value ("" when unset)
EnvXterm256 ==
  [term_set |-> TRUE, term_has |-> {"256color", "256", "color", "xterm"},
   term_is_dumb |-> FALSE, colorterm |-> ""]
EnvLinux ==
  [term_set |-> TRUE, term_has |-> {"linux"}, term_is_dumb |-> FALSE, colorterm |-> ""]
EnvTrueColor ==
  [term_set |-> FALSE, term_has |-> {}, term_is_dumb |-> FALSE,
   colorterm |-> "truecolor"]

\* the processes explored: the terminal's settings at start, the host's signal
\* dispositions, whether stdin and stdout are terminals, the environment
Hosts ==
  { [term |-> CookedTermios, sigdisp |-> DefaultDispositions,
     stdin_tty |-> TRUE, stdout_tty |-> TRUE, env |-> EnvXterm256],
    [term |-> SevenBitTermios, sigdisp |-> HostDispositions,
     stdin_tty |-> TRUE, stdout_tty |-> FALSE, env |-> EnvTrueColor],
    [term |-> CookedTermios, sigdisp |-> DefaultDispositions,
     stdin_tty |-> FALSE, stdout_tty |-> TRUE, env |-> EnvLinux] }

\* terminal_detect_color_support
DetectColorSupport(e, out_tty) ==
  IF e.colorterm \in {"truecolor", "24bit"} THEN "COLOR_TRUECOLOR"
  ELSE IF e.term_set /\ e.term_has \cap {"truecolor", "24bit"} # {}
    THEN "COLOR_TRUECOLOR"
  ELSE IF e.term_set /\ e.term_has \cap {"256color", "256"} # {}
    THEN "COLOR_256"
  ELSE IF e.term_set /\ e.term_has \cap
            {"color", "xterm", "screen", "vt100", "linux", "ansi"} # {}
    THEN "COLOR_16"
  ELSE IF e.term_set /\ e.term_is_dumb THEN "COLOR_NONE"
  ELSE IF out_tty THEN "COLOR_16"
  ELSE "COLOR_NONE"

----------------------------------------------------------------------------
(* State *)

VARIABLES
  \* main thread: the step it is at, where terminal_exit_raw returns to, the
  \* index of the next sigaction call
  pc, exit_ret, sig_i,
  \* terminal_state_t and the static orig_sig* structs
  flags, original_termios, raw_termios, color_support, cached_size, tty_fd,
  resize_pending, resize_callback, write_buffer, orig_sig,
  \* the operating system: the terminal's settings, the signal dispositions,
  \* the window size, the process being stopped
  term, sigdisp, os_size, stopped,
  \* the environment of the process
  stdin_tty, stdout_tty, env,
  \* one Loader object: running, frame index, message, time of last_frame
  loader_running, loader_frame, loader_message, loader_last_frame,
  \* one ProgressBar object, once Terminal::progressBar() has made it
  bar_created, bar_total, bar_current, bar_finished,
  \* CLOCK_MONOTONIC, in microseconds
  now,
  \* a terminal_write call in progress: where it is in its loop, the bytes
  \* still to copy, the buffer and the string it was called with, the byte
  \* counts of the write(2) calls it has issued and the bytes they delivered
  w_pc, w_str, w_buf0, w_arg, w_sys, w_out,
  \* the text function the script called (style, a width, table), its
  \* arguments and what it returned
  fn, fn_in, fn_out,
  \* locals of select() / multiSelect()
  sel_kind, sel_n, sel_cur, sel_flags,
  \* history: the last step taken, whether raw settings were ever applied,
  \* the terminal's settings and the dispositions at the last Cooked-to-Raw
  \* entry, the resize callbacks invoked by the latest size query (forgotten
  \* at the next registration), whether the last restore call failed
  last_ev, entered, entry_termios, entry_sigdisp, cb_calls, restore_failed,
  \* history: the callback of the latest onResize() call, the bytes the latest
  \* spinner, progress bar, table or key-read call handed to write(2), the
  \* time the latest spinner frame was rendered
  last_registered, tty_out, last_render

ctlVars    == <<pc, exit_ret, sig_i>>
stateVars  == <<flags, original_termios, raw_termios, color_support, cached_size,
                tty_fd, resize_pending, resize_callback, write_buffer, orig_sig>>
osVars     == <<term, sigdisp, os_size, stopped>>
envVars    == <<stdin_tty, stdout_tty, env>>
loaderVars == <<loader_running, loader_frame, loader_message, loader_last_frame>>
barVars    == <<bar_created, bar_total, bar_current, bar_finished>>
writeVars  == <<w_pc, w_str, w_buf0, w_arg, w_sys, w_out>>
textVars   == <<fn, fn_in, fn_out>>
auxVars    == <<barVars, writeVars, textVars, now, last_registered>>
ghostVars  == <<tty_out, last_render>>
selVars    == <<sel_kind, sel_n, sel_cur, sel_flags>>
histVars   == <<entered, entry_termios, entry_sigdisp, cb_calls, restore_failed>>

vars == <<ctlVars, stateVars, osVars, envVars, loaderVars, selVars, histVars, last_ev,
          auxVars, ghostVars>>

\* the message the Loader object is created with
LoaderMessage == <<76>>

\* terminal_init_state, with the process's environment chosen: every field
\* but the colour capability
InitFields ==
  /\ pc = "idle" /\ exit_ret = "idle" /\ sig_i = 0
  /\ flags = {}
  /\ original_termios = ZeroTermios /\ raw_termios = ZeroTermios
  /\ cached_size = <<80, 24>>
  /\ tty_fd = -1
  /\ resize_pending = 0
  /\ resize_callback = "UNDEF"
  /\ write_buffer = << >>
  /\ orig_sig = ZeroSigactions
  /\ \E h \in Hosts :
       /\ term = h.term /\ sigdisp = h.sigdisp /\ env = h.env
       /\ stdin_tty = h.stdin_tty /\ stdout_tty = h.stdout_tty
  /\ os_size \in OsSizes
  /\ stopped = FALSE
  /\ loader_running = FALSE /\ loader_frame = 0
  /\ loader_message = LoaderMessage /\ loader_last_frame = 0
  /\ bar_created = FALSE /\ bar_total = 0 /\ bar_current = 0
  /\ bar_finished = FALSE
  /\ now = 0
  /\ w_pc = "none" /\ w_str = << >> /\ w_buf0 = << >> /\ w_arg = << >>
  /\ w_sys = << >> /\ w_out = << >>
  /\ fn = "none" /\ fn_in = << >> /\ fn_out = << >>
  /\ last_registered = "UNDEF" /\ tty_out = << >> /\ last_render = 0
  /\ sel_kind = "none" /\ sel_n = 0 /\ sel_cur = 0 /\ sel_flags = {}
  /\ last_ev = "init" /\ entered = FALSE
  /\ entry_termios = ZeroTermios /\ entry_sigdisp = ZeroSigactions
  /\ cb_calls = << >> /\ restore_failed = FALSE

\* terminal_init_state: state->color_support = COLOR_NONE
Init == InitFields /\ color_support = "COLOR_NONE"

\* the main thread can take a step: the process is neither gone nor stopped
Alive == pc \notin {"exited", "killed"} /\ ~stopped

----------------------------------------------------------------------------
(* terminal_enter_raw, called by Terminal::enter() *)

\* faulty variant for C5: enter() without its already-raw early return
NeverAlreadyRaw == FALSE

\* the guard of the early return: already in raw mode
AlreadyRaw == "RAW" \in flags

\* faulty variant for C6: enter() without its isatty() check
AlwaysATty == TRUE

\* isatty(STDIN_FILENO)
IsATty == stdin_tty

\* the flag check, the tty check, the capture of the current settings and the
\* derivation of the raw ones
EnterCall ==
  /\ Alive /\ pc = "idle"
  /\ IF AlreadyRaw
       THEN /\ last_ev' = "enter_noop"
            /\ UNCHANGED <<pc, exit_ret, sig_i, stateVars>>
     ELSE IF ~IsATty
       THEN /\ last_ev' = "enter_notty"
            /\ UNCHANGED <<pc, exit_ret, sig_i, stateVars>>
     ELSE \E tcgetattr_ok \in BOOLEAN :
            /\ tty_fd' = 0
            /\ IF tcgetattr_ok
                 THEN /\ original_termios' = term
                      /\ raw_termios' = MakeRaw(term)
                      /\ pc' = "enter_tcsetattr"
                      /\ last_ev' = "step"
                 ELSE /\ last_ev' = "step"
                      /\ UNCHANGED <<pc, original_termios, raw_termios>>
            /\ UNCHANGED <<exit_ret, sig_i, flags, color_support, cached_size,
                           resize_pending, resize_callback, write_buffer, orig_sig>>
  /\ tty_out' = << >>
  /\ UNCHANGED <<osVars, envVars, auxVars, last_render, loaderVars, selVars, histVars>>

\* tcsetattr(tty_fd, TCSAFLUSH, &raw_termios)
EnterApply ==
  /\ Alive /\ pc = "enter_tcsetattr"
  /\ \E tcsetattr_ok \in BOOLEAN :
       IF tcsetattr_ok
         THEN /\ term' = raw_termios
              /\ pc' = "enter_flag" /\ last_ev' = "step"
              /\ entered' = TRUE
              /\ entry_termios' = term /\ entry_sigdisp' = sigdisp
              /\ UNCHANGED <<cb_calls, restore_failed>>
         ELSE /\ pc' = "idle" /\ last_ev' = "step"
              /\ UNCHANGED <<term, histVars>>
  /\ tty_out' = << >>
  /\ UNCHANGED <<exit_ret, sig_i, stateVars, sigdisp, os_size, stopped,
                 envVars, auxVars, last_render, loaderVars, selVars>>

\* state_flags |= TERM_STATE_RAW
EnterFlag ==
  /\ Alive /\ pc = "enter_flag"
  /\ flags' = flags \cup {"RAW"}
  /\ pc' = "enter_size" /\ last_ev' = "step"
  /\ tty_out' = << >>
  /\ UNCHANGED <<exit_ret, sig_i, original_termios, raw_termios, color_support,
                 cached_size, tty_fd, resize_pending, resize_callback, write_buffer,
                 orig_sig, osVars, envVars, auxVars, last_render, loaderVars, selVars, histVars>>

\* terminal_update_size(); color_support = terminal_detect_color_support()
EnterSize ==
  /\ Alive /\ pc = "enter_size"
  /\ cached_size' = UpdateSize(cached_size, stdout_tty, os_size)
  /\ color_support' = DetectColorSupport(env, stdout_tty)
  /\ pc' = "enter_sig" /\ sig_i' = 1 /\ last_ev' = "step"
  /\ tty_out' = << >>
  /\ UNCHANGED <<exit_ret, flags, original_termios, raw_termios, tty_fd,
                 resize_pending, resize_callback, write_buffer, orig_sig,
                 osVars, envVars, auxVars, last_render, loaderVars, selVars, histVars>>

\* terminal_setup_signal_handlers: one sigaction(sig, &sa, &orig_sig) per step
EnterSig ==
  /\ Alive /\ pc = "enter_sig"
  /\ LET sig == SigOrder[sig_i] IN
       /\ orig_sig' = [orig_sig EXCEPT ![sig] = sigdisp[sig]]
       /\ sigdisp' = [sigdisp EXCEPT ![sig] = EngineHandler(sig)]
  /\ IF sig_i = Len(SigOrder)
       THEN /\ pc' = "idle" /\ sig_i' = 0 /\ last_ev' = "step"
       ELSE /\ sig_i' = sig_i + 1 /\ last_ev' = "step"
            /\ UNCHANGED pc
  /\ tty_out' = << >>
  /\ UNCHANGED <<exit_ret, flags, original_termios, raw_termios, color_support,
                 cached_size, tty_fd, resize_pending, resize_callback, write_buffer,
                 term, os_size, stopped, envVars, auxVars, last_render, loaderVars, selVars,
                 histVars>>

----------------------------------------------------------------------------
(* terminal_exit_raw, called by Terminal::exit(), RSHUTDOWN and MSHUTDOWN *)

\* faulty variant for C2: exit() writes the raw settings back
RestoredRawTermios == raw_termios

\* the settings terminal_exit_raw hands to tcsetattr
RestoredTermios == original_termios

\* faulty variant for C7: exit() resets the signals to their defaults
DefaultedDisposition(sig) == "SIG_DFL"

\* the disposition terminal_restore_signal_handlers hands to sigaction
RestoredDisposition(sig) == orig_sig[sig]

\* the flags once the restore call has succeeded
FlagsAfterRestore(f) == f \ {"RAW"}

\* the flag check and the flush; `ret` is where the call returns to
ExitRawEntry(ret) ==
  IF "RAW" \notin flags
    THEN /\ pc' = ret /\ exit_ret' = "idle"
         /\ last_ev' = "exit_noop"
         /\ tty_out' = << >>
         /\ UNCHANGED <<sig_i, stateVars, osVars, envVars, auxVars, last_render, loaderVars, selVars, histVars>>
    ELSE /\ write_buffer' = FlushBuffer(write_buffer)
         /\ pc' = "exit_cursor" /\ exit_ret' = ret
         /\ last_ev' = "step"
         /\ tty_out' = << >>
         /\ UNCHANGED <<sig_i, flags, original_termios, raw_termios,
                        color_support, cached_size, tty_fd, resize_pending,
                        resize_callback, orig_sig, osVars, envVars, auxVars, last_render, loaderVars,
                        selVars, histVars>>

\* Terminal::exit()
ExitCall == Alive /\ pc = "idle" /\ ExitRawEntry("idle")

\* PHP_RSHUTDOWN_FUNCTION: the request ends
RShutdown == Alive /\ pc = "idle" /\ ExitRawEntry("mshutdown")

\* PHP_MSHUTDOWN_FUNCTION: the module is unloaded and the state freed
MShutdown == Alive /\ pc = "mshutdown" /\ ExitRawEntry("exited")

\* if (state_flags & TERM_STATE_CURSOR_HIDDEN) terminal_cursor_show(1)
ExitCursor ==
  /\ Alive /\ pc = "exit_cursor"
  /\ IF "CURSOR_HIDDEN" \in flags
       THEN /\ flags' = CursorShowFlags(flags, TRUE)
            /\ write_buffer' = CursorShowBuf(write_buffer, TRUE)
       ELSE UNCHANGED <<flags, write_buffer>>
  /\ pc' = "exit_alt" /\ last_ev' = "step"
  /\ tty_out' = << >>
  /\ UNCHANGED <<exit_ret, sig_i, original_termios, raw_termios, color_support,
                 cached_size, tty_fd, resize_pending, resize_callback, orig_sig,
                 osVars, envVars, auxVars, last_render, loaderVars, selVars, histVars>>

\* if (state_flags & TERM_STATE_ALT_SCREEN) terminal_alternate_screen(0)
ExitAlt ==
  /\ Alive /\ pc = "exit_alt"
  /\ IF "ALT_SCREEN" \in flags
       THEN /\ flags' = AltScreenFlags(flags, FALSE)
            /\ write_buffer' = AltScreenBuf(write_buffer, FALSE)
       ELSE UNCHANGED <<flags, write_buffer>>
  /\ pc' = "exit_tcsetattr" /\ last_ev' = "step"
  /\ tty_out' = << >>
  /\ UNCHANGED <<exit_ret, sig_i, original_termios, raw_termios, color_support,
                 cached_size, tty_fd, resize_pending, resize_callback, orig_sig,
                 osVars, envVars, auxVars, last_render, loaderVars, selVars, histVars>>

\* tcsetattr(tty_fd, TCSAFLUSH, &original_termios); return -1 when it fails
ExitRestore ==
  /\ Alive /\ pc = "exit_tcsetattr"
  /\ \E tcsetattr_ok \in BOOLEAN :
       IF tcsetattr_ok
         THEN /\ term' = RestoredTermios
              /\ restore_failed' = FALSE
              /\ pc' = "exit_flag" /\ last_ev' = "step"
              /\ UNCHANGED exit_ret
         ELSE /\ restore_failed' = TRUE
              /\ pc' = exit_ret /\ exit_ret' = "idle"
              /\ last_ev' = "exit_failed"
              /\ UNCHANGED term
  /\ tty_out' = << >>
  /\ UNCHANGED <<sig_i, stateVars, sigdisp, os_size, stopped, envVars, auxVars, last_render,
                 loaderVars, selVars, entered, entry_termios, entry_sigdisp, cb_calls>>

\* state_flags &= ~TERM_STATE_RAW
ExitFlag ==
  /\ Alive /\ pc = "exit_flag"
  /\ flags' = FlagsAfterRestore(flags)
  /\ pc' = "exit_sig" /\ sig_i' = 1 /\ last_ev' = "step"
  /\ tty_out' = << >>
  /\ UNCHANGED <<exit_ret, original_termios, raw_termios, color_support,
                 cached_size, tty_fd, resize_pending, resize_callback, write_buffer,
                 orig_sig, osVars, envVars, auxVars, last_render, loaderVars, selVars, histVars>>

\* terminal_restore_signal_handlers: one sigaction(sig, &orig_sig, NULL) per step
ExitSig ==
  /\ Alive /\ pc = "exit_sig"
  /\ LET sig == SigOrder[sig_i] IN
       sigdisp' = [sigdisp EXCEPT ![sig] = RestoredDisposition(sig)]
  /\ IF sig_i = Len(SigOrder)
       THEN /\ pc' = exit_ret /\ exit_ret' = "idle" /\ sig_i' = 0
            /\ last_ev' = "exit_ok"
       ELSE /\ sig_i' = sig_i + 1 /\ last_ev' = "step"
            /\ UNCHANGED <<pc, exit_ret>>
  /\ tty_out' = << >>
  /\ UNCHANGED <<stateVars, term, os_size, stopped, envVars, auxVars, last_render, loaderVars,
                 selVars, histVars>>

----------------------------------------------------------------------------
(* Signal handlers: each runs as one step of the interrupted thread *)

\* a signal can be delivered: the process exists, and a stopped process is
\* only woken by SIGCONT
Deliverable(sig) == pc \notin {"exited", "killed"} /\ (stopped => sig = "SIGCONT")

\* terminal_handle_sigwinch: the value it leaves in resize_pending
SigwinchPending == 1

\* faulty variant for C10: the handler itself re-queries the window size
SigwinchRefreshedSize == UpdateSize(cached_size, stdout_tty, os_size')

\* terminal_handle_sigwinch: the cached size after it
SigwinchSize == cached_size

\* the window is resized and SIGWINCH delivered; SIG_DFL ignores it
DeliverSigwinch ==
  /\ Deliverable("SIGWINCH")
  /\ \E ws \in OsSizes \ {os_size} : os_size' = ws
  /\ IF sigdisp["SIGWINCH"] = "terminal_handle_sigwinch"
       THEN /\ resize_pending' = SigwinchPending
            /\ cached_size' = SigwinchSize
            /\ last_ev' = "sigwinch"
       ELSE /\ last_ev' = "step"
            /\ UNCHANGED <<resize_pending, cached_size>>
  /\ tty_out' = << >>
  /\ UNCHANGED <<ctlVars, flags, original_termios, raw_termios, color_support, tty_fd,
                 resize_callback, write_buffer, orig_sig, term, sigdisp,
                 stopped, envVars, auxVars, last_render, loaderVars, selVars, histVars>>

\* terminal_exit_raw run to its end inside a handler: what it leaves behind
ExitRawInHandler(tcsetattr_ok) ==
  LET raw   == "RAW" \in flags
      buf0  == IF raw THEN FlushBuffer(write_buffer) ELSE write_buffer
      hid   == raw /\ "CURSOR_HIDDEN" \in flags
      f1    == IF hid THEN CursorShowFlags(flags, TRUE) ELSE flags
      buf1  == IF hid THEN CursorShowBuf(buf0, TRUE) ELSE buf0
      alt   == raw /\ "ALT_SCREEN" \in f1
      f2    == IF alt THEN AltScreenFlags(f1, FALSE) ELSE f1
      buf2  == IF alt THEN AltScreenBuf(buf1, FALSE) ELSE buf1
      done  == raw /\ tcsetattr_ok
  IN  [flags   |-> IF done THEN FlagsAfterRestore(f2) ELSE f2,
       buf     |-> buf2,
       term    |-> IF done THEN RestoredTermios ELSE term,
       sigdisp |-> IF done THEN [s \in SIGNALS |-> RestoredDisposition(s)] ELSE sigdisp,
       failed  |-> IF raw THEN ~tcsetattr_ok ELSE restore_failed]

\* terminal_handle_sigint, for SIGINT and SIGTERM: terminal_exit_raw(), then
\* signal(sig, SIG_DFL) and raise(sig), which ends the process; SIG_DFL ends
\* it at once
DeliverSigint(sig) ==
  /\ sig \in {"SIGINT", "SIGTERM"} /\ Deliverable(sig)
  /\ IF sigdisp[sig] = "terminal_handle_sigint"
       THEN \E tcsetattr_ok \in BOOLEAN :
              LET r == ExitRawInHandler(tcsetattr_ok) IN
                /\ flags' = r.flags /\ write_buffer' = r.buf /\ term' = r.term
                /\ sigdisp' = [r.sigdisp EXCEPT ![sig] = "SIG_DFL"]
                /\ restore_failed' = r.failed
                /\ pc' = "killed" /\ last_ev' = "step"
     ELSE IF sigdisp[sig] = "SIG_DFL"
       THEN /\ pc' = "killed" /\ last_ev' = "step"
            /\ UNCHANGED <<flags, write_buffer, term, sigdisp, restore_failed>>
     ELSE /\ last_ev' = "step"
          /\ UNCHANGED <<pc, flags, write_buffer, term, sigdisp, restore_failed>>
  /\ tty_out' = << >>
  /\ UNCHANGED <<exit_ret, sig_i, original_termios, raw_termios, color_support,
                 cached_size, tty_fd, resize_pending, resize_callback, orig_sig,
                 os_size, stopped, envVars, auxVars, last_render, loaderVars, selVars,
                 entered, entry_termios, entry_sigdisp, cb_calls>>

\* faulty variant for C8: the suspend handler leaves the raw settings
SuspendRawTermios == raw_termios

\* terminal_handle_sigtstp: the settings it hands to tcsetattr
SuspendTermios == original_termios

\* terminal_handle_sigtstp: signal(SIGTSTP, ...)
SuspendDisposition == "SIG_DFL"

\* terminal_handle_sigtstp: restore the settings if raw, reset the disposition,
\* raise(SIGTSTP), which stops the process; SIG_DFL stops it at once
DeliverSigtstp ==
  /\ Deliverable("SIGTSTP")
  /\ IF sigdisp["SIGTSTP"] = "terminal_handle_sigtstp"
       THEN /\ term' = IF "RAW" \in flags THEN SuspendTermios ELSE term
            /\ sigdisp' = [sigdisp EXCEPT !["SIGTSTP"] = SuspendDisposition]
            /\ stopped' = TRUE /\ last_ev' = "sigtstp"
     ELSE IF sigdisp["SIGTSTP"] = "SIG_DFL"
       THEN /\ stopped' = TRUE /\ last_ev' = "step"
            /\ UNCHANGED <<term, sigdisp>>
     ELSE /\ last_ev' = "step"
          /\ UNCHANGED <<term, sigdisp, stopped>>
  /\ tty_out' = << >>
  /\ UNCHANGED <<ctlVars, stateVars, os_size, envVars, auxVars, last_render, loaderVars,
                 selVars, histVars>>

\* terminal_handle_sigcont: the settings it hands to tcsetattr
ResumeTermios == raw_termios

\* faulty variant for C9: the continue handler reinstalls nothing
ResumeDefaultDisposition == "SIG_DFL"

\* terminal_handle_sigcont: the handler it installs for SIGTSTP
ResumeDisposition == "terminal_handle_sigtstp"

\* terminal_handle_sigcont: re-apply the raw settings and refresh the size if
\* raw, reinstall the suspend handler; the signal resumes a stopped process
DeliverSigcont ==
  /\ Deliverable("SIGCONT")
  /\ stopped' = FALSE
  /\ IF sigdisp["SIGCONT"] = "terminal_handle_sigcont"
       THEN /\ IF "RAW" \in flags
                 THEN /\ term' = ResumeTermios
                      /\ cached_size' = UpdateSize(cached_size, stdout_tty, os_size)
                 ELSE UNCHANGED <<term, cached_size>>
            /\ sigdisp' = [sigdisp EXCEPT !["SIGTSTP"] = ResumeDisposition]
            /\ last_ev' = IF stopped THEN "sigcont_resume" ELSE "sigcont"
       ELSE /\ last_ev' = "step"
            /\ UNCHANGED <<term, cached_size, sigdisp>>
  /\ tty_out' = << >>
  /\ UNCHANGED <<ctlVars, flags, original_termios, raw_termios, color_support, tty_fd,
                 resize_pending, resize_callback, write_buffer, orig_sig, os_size,
                 envVars, auxVars, last_render, loaderVars, selVars, histVars>>

----------------------------------------------------------------------------
(* Terminal::size(), Terminal::onResize() *)

\* callables the host may register
Callbacks == {"cb1", "cb2"}

\* the pending-resize check and, when set, terminal_update_size()
SizeCall ==
  /\ Alive /\ pc = "idle"
  /\ cb_calls' = << >>
  /\ IF resize_pending # 0
       THEN /\ cached_size' = UpdateSize(cached_size, stdout_tty, os_size)
            /\ pc' = "size_clear" /\ last_ev' = "step"
       ELSE /\ last_ev' = "step"
            /\ UNCHANGED <<pc, cached_size>>
  /\ tty_out' = << >>
  /\ UNCHANGED <<exit_ret, sig_i, flags, original_termios, raw_termios, color_support,
                 tty_fd, resize_pending, resize_callback, write_buffer, orig_sig,
                 osVars, envVars, auxVars, last_render, loaderVars, selVars, entered, entry_termios,
                 entry_sigdisp, restore_failed>>

\* state->resize_pending = 0
SizeClear ==
  /\ Alive /\ pc = "size_clear"
  /\ resize_pending' = 0
  /\ pc' = "size_callback" /\ last_ev' = "step"
  /\ tty_out' = << >>
  /\ UNCHANGED <<exit_ret, sig_i, flags, original_termios, raw_termios,
                 color_support, cached_size, tty_fd, resize_callback, write_buffer,
                 orig_sig, osVars, envVars, auxVars, last_render, loaderVars, selVars, histVars>>

\* call_user_function(resize_callback) when one is registered; the result array
SizeCallback ==
  /\ Alive /\ pc = "size_callback"
  /\ cb_calls' = IF resize_callback # "UNDEF" THEN Append(cb_calls, resize_callback)
                ELSE cb_calls
  /\ pc' = "idle" /\ last_ev' = "step"
  /\ tty_out' = << >>
  /\ UNCHANGED <<exit_ret, sig_i, stateVars, osVars, envVars, auxVars, last_render, loaderVars, selVars,
                 entered, entry_termios, entry_sigdisp, restore_failed>>

\* the callables the host passes to onResize(): "cb1" first, then another one
\* than the one registered
NextCallbacks(cur) ==
  IF cur = "UNDEF" THEN {"cb1"} ELSE IF cur = "cb1" THEN Callbacks \ {cur} ELSE {}

\* faulty variant for C12: onResize() keeps a callback already registered
KeptCallback(old, new) == IF old = "UNDEF" THEN new ELSE old

\* the slot after onResize(new): the old zval is released, the new one copied
RegisteredCallback(old, new) == new

\* Terminal::onResize(callback): the single slot is overwritten
OnResize ==
  /\ Alive /\ pc = "idle"
  /\ \E cb \in NextCallbacks(resize_callback) :
       /\ resize_callback' = RegisteredCallback(resize_callback, cb)
       /\ last_registered' = cb
  /\ cb_calls' = << >>
  /\ last_ev' = "step"
  /\ tty_out' = << >>
  /\ UNCHANGED <<pc, exit_ret, sig_i, flags, original_termios, raw_termios,
                 color_support, cached_size, tty_fd, resize_pending, write_buffer,
                 orig_sig, osVars, envVars, barVars, writeVars, textVars, now, last_render,
                 loaderVars, selVars, entered, entry_termios, entry_sigdisp,
                 restore_failed>>

----------------------------------------------------------------------------
(* Terminal::cursor(), Terminal::alternateScreen() *)

\* terminal_cursor_show(visible); terminal_flush_buffer()
Cursor ==
  /\ Alive /\ pc = "idle"
  /\ \E visible \in BOOLEAN :
       /\ flags' = CursorShowFlags(flags, visible)
       /\ write_buffer' = FlushBuffer(CursorShowBuf(write_buffer, visible))
  /\ last_ev' = "step"
  /\ tty_out' = << >>
  /\ UNCHANGED <<pc, exit_ret, sig_i, original_termios, raw_termios, color_support,
                 cached_size, tty_fd, resize_pending, resize_callback, orig_sig,
                 osVars, envVars, auxVars, last_render, loaderVars, selVars, histVars>>

\* terminal_alternate_screen(enable); terminal_flush_buffer()
AlternateScreen ==
  /\ Alive /\ pc = "idle"
  /\ \E enable \in BOOLEAN :
       /\ flags' = AltScreenFlags(flags, enable)
       /\ write_buffer' = FlushBuffer(AltScreenBuf(write_buffer, enable))
  /\ last_ev' = "step"
  /\ tty_out' = << >>
  /\ UNCHANGED <<pc, exit_ret, sig_i, original_termios, raw_termios, color_support,
                 cached_size, tty_fd, resize_pending, resize_callback, orig_sig,
                 osVars, envVars, auxVars, last_render, loaderVars, selVars, histVars>>

----------------------------------------------------------------------------
(* Loader::start(), Loader::stop() *)

\* the "dots" frames: U+280B U+2819 U+2839 U+2838 U+283C U+2834 U+2826 U+2827
\* U+2807 U+280F, each E2 A0 xx in UTF-8
SpinnerDotsLow == <<11, 25, 57, 56, 60, 52, 38, 39, 7, 15>>
SpinnerFrame(i) == <<226, 160, 128 + SpinnerDotsLow[(i % Len(SpinnerDotsLow)) + 1]>>

\* SPINNER_FRAME_TIME, in microseconds
SPINNER_FRAME_TIME == 60000

\* the largest frame index and the latest clock value explored
MaxFrame == 3
MaxClock == 60000

\* how far the clock moves between two calls
ClockSteps == {20000, 40000}

\* elapsed_us of Loader::tick(): seconds and nanoseconds of the two timespecs
\* combined; exact here, the clock values being whole microseconds
ElapsedUs(t, t0) == ((t \div 1000000) - (t0 \div 1000000)) * 1000000
                    + (((t % 1000000) * 1000 - (t0 % 1000000) * 1000) \div 1000)

\* the bytes one frame writes: erase line, frame, space, message
LoaderFrameBytes(frame, msg) ==
  <<SeqEraseLine, SpinnerFrame(frame), <<32>>, msg>>

\* loader_render_frame: the buffer after it (it ends with a flush)
LoaderRenderFrame(buf, frame) ==
  OutFlush(OutAll(OutStart(buf), LoaderFrameBytes(frame, loader_message))).buf

\* loader_render_frame: what it hands to write(2)
LoaderRenderOut(buf, frame) ==
  OutFlush(OutAll(OutStart(buf), LoaderFrameBytes(frame, loader_message))).out

\* Loader::start(): nothing when running; else frame 0 is rendered with the
\* cursor hidden
LoaderStart ==
  /\ Alive /\ pc = "idle"
  /\ IF loader_running
       THEN /\ last_ev' = "loader_start"
            /\ tty_out' = << >>
            /\ UNCHANGED <<flags, write_buffer, loaderVars, last_render>>
       ELSE /\ loader_running' = TRUE
            /\ flags' = CursorShowFlags(flags, FALSE)
            /\ loader_last_frame' = now
            /\ write_buffer' = LoaderRenderFrame(CursorShowBuf(write_buffer, FALSE), 0)
            /\ tty_out' = CursorShowOut(write_buffer, FALSE)
                            \o LoaderRenderOut(CursorShowBuf(write_buffer, FALSE), 0)
            /\ loader_frame' = 1
            /\ last_render' = now
            /\ last_ev' = "loader_start"
            /\ UNCHANGED loader_message
  /\ UNCHANGED <<pc, exit_ret, sig_i, original_termios, raw_termios, color_support,
                 cached_size, tty_fd, resize_pending, resize_callback, orig_sig,
                 osVars, envVars, auxVars, selVars, histVars>>

\* the messages Loader::text() is called with
Messages == { <<78>>, << >> }

\* Loader::text(message): the message is replaced; a running loader renders a
\* frame, and last_frame is left alone
LoaderText ==
  /\ Alive /\ pc = "idle"
  /\ loader_running => loader_frame < MaxFrame
  /\ \E msg \in Messages :
       /\ loader_message' = msg
       /\ IF loader_running
            THEN /\ write_buffer' =
                      OutFlush(OutAll(OutStart(write_buffer),
                                      LoaderFrameBytes(loader_frame, msg))).buf
                 /\ tty_out' =
                      OutFlush(OutAll(OutStart(write_buffer),
                                      LoaderFrameBytes(loader_frame, msg))).out
                 /\ loader_frame' = loader_frame + 1
                 /\ last_render' = now
            ELSE /\ tty_out' = << >>
                 /\ UNCHANGED <<write_buffer, loader_frame, last_render>>
  /\ last_ev' = "loader_text"
  /\ UNCHANGED <<pc, exit_ret, sig_i, flags, original_termios, raw_termios,
                 color_support, cached_size, tty_fd, resize_pending, resize_callback,
                 orig_sig, loader_running, loader_last_frame,
                 osVars, envVars, auxVars, selVars, histVars>>

\* faulty variant for C20: tick() without its running check
TickAlways(running) == TRUE

\* Loader::tick(): whether it goes on to look at the clock
TickRuns(running) == running

\* Loader::tick(): nothing when not running; a frame is rendered and last_frame
\* set when SPINNER_FRAME_TIME has elapsed since last_frame
LoaderTick ==
  /\ Alive /\ pc = "idle"
  /\ IF TickRuns(loader_running)
        /\ ElapsedUs(now, loader_last_frame) >= SPINNER_FRAME_TIME
       THEN /\ loader_frame < MaxFrame
            /\ write_buffer' = LoaderRenderFrame(write_buffer, loader_frame)
            /\ tty_out' = LoaderRenderOut(write_buffer, loader_frame)
            /\ loader_frame' = loader_frame + 1
            /\ loader_last_frame' = now
            /\ last_render' = now
       ELSE /\ tty_out' = << >>
            /\ UNCHANGED <<write_buffer, loader_frame, loader_last_frame, last_render>>
  /\ last_ev' = "loader_tick"
  /\ UNCHANGED <<pc, exit_ret, sig_i, flags, original_termios, raw_termios,
                 color_support, cached_size, tty_fd, resize_pending, resize_callback,
                 orig_sig, loader_running, loader_message,
                 osVars, envVars, auxVars, selVars, histVars>>

\* time passes between two calls
ClockAdvance ==
  /\ Alive /\ pc = "idle"
  /\ \E d \in ClockSteps : now + d <= MaxClock /\ now' = now + d
  /\ last_ev' = "step"
  /\ tty_out' = << >>
  /\ UNCHANGED <<ctlVars, stateVars, osVars, envVars, loaderVars, selVars, histVars,
                 barVars, writeVars, last_registered, textVars, last_render>>

\* the final line of Loader::stop(message): check mark, message, newline
LoaderStopLine == <<27, 91, 51, 50, 109, 226, 156, 147, 27, 91, 48, 109, 32>> \o <<77>> \o <<10>>

\* what Loader::stop() writes: erase line, the final line if a message is
\* given, show cursor
LoaderStopBytes(with_message) ==
  <<SeqEraseLine, IF with_message THEN LoaderStopLine ELSE << >>, SeqCursorShow>>

\* Loader::stop(message): nothing when not running; else the line is erased,
\* the message printed, the cursor shown and the buffer flushed
LoaderStop ==
  /\ Alive /\ pc = "idle"
  /\ IF ~loader_running
       THEN /\ last_ev' = "loader_stop"
            /\ tty_out' = << >>
            /\ UNCHANGED <<flags, write_buffer, loaderVars>>
       ELSE \E with_message \in BOOLEAN :
            /\ loader_running' = FALSE
            /\ flags' = CursorShowFlags(flags, TRUE)
            /\ write_buffer' =
                 OutFlush(OutAll(OutStart(write_buffer), LoaderStopBytes(with_message))).buf
            /\ tty_out' =
                 OutFlush(OutAll(OutStart(write_buffer), LoaderStopBytes(with_message))).out
            /\ last_ev' = "loader_stop"
            /\ UNCHANGED <<loader_frame, loader_message, loader_last_frame>>
  /\ UNCHANGED <<pc, exit_ret, sig_i, original_termios, raw_termios, color_support,
                 cached_size, tty_fd, resize_pending, resize_callback, orig_sig,
                 osVars, envVars, auxVars, last_render, selVars, histVars>>

----------------------------------------------------------------------------
(* ProgressBar: Terminal::progressBar(), advance(), set(), finish() *)

\* how far below zero the position is followed
MaxUnder == 2

\* integer division of C, truncating toward zero (d not 0)
CDiv(n, d) ==
  IF (n >= 0) = (d > 0) THEN (IF n >= 0 THEN n ELSE -n) \div (IF d > 0 THEN d ELSE -d)
  ELSE -((IF n >= 0 THEN n ELSE -n) \div (IF d > 0 THEN d ELSE -d))

RECURSIVE DecDigits(_)
\* the decimal digits of a natural number
DecDigits(n) == IF n < 10 THEN <<48 + n>> ELSE DecDigits(n \div 10) \o <<48 + (n % 10)>>

\* "%d"
Dec(n) == IF n < 0 THEN <<45>> \o DecDigits(-n) ELSE DecDigits(n)

\* the totals, steps and positions the methods are called with, all within
\* the range of int, where the (int) cast of the zend_long keeps the value
BarTotals == {-1, 0, 2, 3}
BarSteps  == {-1, 1, 2}
BarSets   == {-1, 0, 1, 5}

\* the info text " %d%% (%d/%d) %.1f/s ETA: %02d:%02d", as rendered with no
\* time elapsed since the bar was made: rate 0.0, ETA 00:00
BarInfo(current, total) ==
  <<32>> \o Dec(IF total > 0 THEN CDiv(current * 100, total) ELSE 0) \o <<37, 32, 40>>
    \o Dec(current) \o <<47>> \o Dec(total) \o <<41>>
    \o <<32, 48, 46, 48, 47, 115, 32, 69, 84, 65, 58, 32, 48, 48, 58, 48, 48>>

\* bar_width: the columns left by the info text and the brackets, at least 10
\* (no label)
BarWidth(cols, current, total) ==
  LET w == cols - Len(BarInfo(current, total)) - 3 IN IF w < 10 THEN 10 ELSE w

\* filled: the cells drawn "="
BarFilled(cols, current, total) ==
  LET bw == BarWidth(cols, current, total)
      f  == IF total > 0 THEN CDiv(current * bw, total) ELSE 0
  IN  IF f > bw THEN bw ELSE f

\* the cells between the brackets: "=" below filled, ">" at filled, " " above
BarCells(bar_width, filled) ==
  [k \in 1..bar_width |-> IF k - 1 < filled THEN 61 ELSE IF k - 1 = filled THEN 62 ELSE 32]

\* the strings progress_bar_render writes, in order
BarBytes(cols, current, total) ==
  <<SeqEraseLine, <<91>>,
    BarCells(BarWidth(cols, current, total), BarFilled(cols, current, total)),
    <<93>>, BarInfo(current, total)>>

\* progress_bar_render: the writes, then terminal_flush_buffer()
ProgressBarRender(buf, current, total) ==
  OutFlush(OutAll(OutStart(buf), BarBytes(cached_size[1], current, total)))

\* Terminal::progressBar(total): a new bar at 0, rendered
ProgressBar ==
  /\ Alive /\ pc = "idle"
  /\ \E total \in BarTotals :
       /\ bar_total' = total
       /\ write_buffer' = ProgressBarRender(write_buffer, 0, total).buf
       /\ tty_out' = ProgressBarRender(write_buffer, 0, total).out
  /\ bar_created' = TRUE /\ bar_current' = 0 /\ bar_finished' = FALSE
  /\ last_ev' = "bar_new"
  /\ UNCHANGED <<ctlVars, flags, original_termios, raw_termios, color_support,
                 cached_size, tty_fd, resize_pending, resize_callback, orig_sig,
                 osVars, envVars, loaderVars, writeVars, now, last_registered, textVars,
                 last_render, selVars, histVars>>

\* faulty variant for C18: advance() without its finished check
NeverFinished(finished) == FALSE

\* advance(), set(): whether the call returns at once
BarIsFinished(finished) == finished

\* ProgressBar::advance(step): nothing when finished; else current += step,
\* clamped to total from above only, and the bar rendered
BarAdvance ==
  /\ Alive /\ pc = "idle" /\ bar_created
  /\ \E step \in BarSteps :
       LET sum     == bar_current + step
           current == IF sum > bar_total THEN bar_total ELSE sum
       IN  IF BarIsFinished(bar_finished)
             THEN /\ tty_out' = << >>
                  /\ UNCHANGED <<write_buffer, bar_current>>
             ELSE /\ current >= -MaxUnder
                  /\ bar_current' = current
                  /\ write_buffer' = ProgressBarRender(write_buffer, current, bar_total).buf
                  /\ tty_out' = ProgressBarRender(write_buffer, current, bar_total).out
  /\ last_ev' = "bar_advance"
  /\ UNCHANGED <<ctlVars, flags, original_termios, raw_termios, color_support,
                 cached_size, tty_fd, resize_pending, resize_callback, orig_sig,
                 osVars, envVars, loaderVars, bar_created, bar_total, bar_finished,
                 writeVars, now, last_registered, textVars, last_render, selVars, histVars>>

\* ProgressBar::set(current): nothing when finished; else current is clamped
\* to 0 from below, then to total from above, and the bar rendered
BarSet ==
  /\ Alive /\ pc = "idle" /\ bar_created
  /\ \E n \in BarSets :
       LET low     == IF n < 0 THEN 0 ELSE n
           current == IF low > bar_total THEN bar_total ELSE low
       IN  IF BarIsFinished(bar_finished)
             THEN /\ tty_out' = << >>
                  /\ UNCHANGED <<write_buffer, bar_current>>
             ELSE /\ bar_current' = current
                  /\ write_buffer' = ProgressBarRender(write_buffer, current, bar_total).buf
                  /\ tty_out' = ProgressBarRender(write_buffer, current, bar_total).out
  /\ last_ev' = "bar_set"
  /\ UNCHANGED <<ctlVars, flags, original_termios, raw_termios, color_support,
                 cached_size, tty_fd, resize_pending, resize_callback, orig_sig,
                 osVars, envVars, loaderVars, bar_created, bar_total, bar_finished,
                 writeVars, now, last_registered, textVars, last_render, selVars, histVars>>

\* the green check mark and the space after it
SeqCheckMark == <<27, 91, 51, 50, 109, 226, 156, 147, 27, 91, 48, 109, 32>>

\* what ProgressBar::finish(message) writes for a bar without label: erase
\* line, check mark, the message or "Done!", newline
BarFinishBytes(message) ==
  <<SeqEraseLine, SeqCheckMark,
    IF Len(message) > 0 THEN message ELSE <<68, 111, 110, 101, 33>>, <<10>>>>

\* ProgressBar::finish(message): nothing when finished; else finished is set,
\* current becomes total, the final line is written and the buffer flushed
BarFinish ==
  /\ Alive /\ pc = "idle" /\ bar_created
  /\ IF bar_finished
       THEN /\ tty_out' = << >>
            /\ UNCHANGED <<write_buffer, bar_current, bar_finished>>
       ELSE \E message \in Messages :
            /\ bar_finished' = TRUE
            /\ bar_current' = bar_total
            /\ write_buffer' =
                 OutFlush(OutAll(OutStart(write_buffer), BarFinishBytes(message))).buf
            /\ tty_out' =
                 OutFlush(OutAll(OutStart(write_buffer), BarFinishBytes(message))).out
  /\ last_ev' = "bar_finish"
  /\ UNCHANGED <<ctlVars, flags, original_termios, raw_termios, color_support,
                 cached_size, tty_fd, resize_pending, resize_callback, orig_sig,
                 osVars, envVars, loaderVars, bar_created, bar_total,
                 writeVars, now, last_registered, textVars, last_render, selVars, histVars>>

----------------------------------------------------------------------------
(* Terminal::select(), Terminal::multiSelect() *)

\* the prompt and the text of option i
Prompt == <<63>>
OptionText(i) == <<97 + i>>

\* what select() writes after the prompt, and what multiSelect() does
SelectPromptTail == <<10>>
MultiPromptTail == <<32, 40, 115, 112, 97, 99, 101, 32, 116, 111, 32, 116, 111, 103, 103, 108, 101, 44, 32, 101, 110, 116, 101, 114, 32, 116, 111, 32, 99, 111, 110, 102, 105, 114, 109, 41, 10>>

\* one option line of select()
SelectLine(i, selected) ==
  <<32, 32>>
  \o (IF i = selected THEN <<27, 91, 51, 54, 109, 226, 151, 143, 32>> ELSE <<226, 151, 139, 32>>)
  \o OptionText(i)
  \o (IF i = selected THEN <<32, 32, 226, 134, 144, 27, 91, 48, 109>> ELSE << >>)
  \o <<10>>

\* one option line of multiSelect()
MultiLine(i, cursor, checked) ==
  <<32, 32>>
  \o (IF i \in checked THEN <<27, 91, 51, 50, 109, 226, 152, 145, 27, 91, 48, 109, 32>> ELSE <<226, 152, 144, 32>>)
  \o (IF i = cursor THEN <<27, 91, 52, 109>> ELSE << >>)
  \o OptionText(i)
  \o (IF i = cursor THEN <<27, 91, 48, 109, 32, 226, 134, 144>> ELSE << >>)
  \o <<10>>

RECURSIVE DrawOptions(_, _, _, _, _, _)
\* the drawing loop over options i .. n-1
DrawOptions(buf, kind, i, n, cur, checked) ==
  IF i >= n THEN buf
  ELSE DrawOptions(
         TerminalWrite(buf, IF kind = "select" THEN SelectLine(i, cur)
                            ELSE MultiLine(i, cur, checked)),
         kind, i + 1, n, cur, checked)

\* what terminal_read_key(-1, ...) may report to the loops
KeyEvents == {"up", "down", "enter", "esc", "ctrl+c", "space", "other", "error"}

\* select(prompt, options, default_idx): raw mode is required; no options
\* returns null; else the index is clamped, the cursor hidden, the prompt written
SelectCall ==
  /\ Alive /\ pc = "idle"
  /\ \E n \in 0..MaxOptions, default_idx \in -1..MaxOptions :
       IF "RAW" \notin flags
         THEN /\ last_ev' = "select_not_raw"
              /\ UNCHANGED <<pc, flags, write_buffer, selVars>>
       ELSE IF n = 0
         THEN /\ last_ev' = "step"
              /\ UNCHANGED <<pc, flags, write_buffer, selVars>>
       ELSE /\ sel_kind' = "select" /\ sel_n' = n /\ sel_flags' = {}
            /\ sel_cur' = IF default_idx < 0 THEN 0
                          ELSE IF default_idx >= n THEN n - 1 ELSE default_idx
            /\ flags' = CursorShowFlags(flags, FALSE)
            /\ write_buffer' =
                 TerminalWrite(TerminalWrite(CursorShowBuf(write_buffer, FALSE),
                                             Prompt), SelectPromptTail)
            /\ pc' = "select_draw" /\ last_ev' = "step"
  /\ tty_out' = << >>
  /\ UNCHANGED <<exit_ret, sig_i, original_termios, raw_termios, color_support,
                 cached_size, tty_fd, resize_pending, resize_callback, orig_sig,
                 osVars, envVars, auxVars, last_render, loaderVars, histVars>>

\* default index lists tried for multiSelect()
MultiDefaults == { {}, {0}, {-1, MaxOptions} }

\* multiSelect(prompt, options, defaults): as select(), with the in-range
\* defaults checked and the cursor on option 0
MultiSelectCall ==
  /\ Alive /\ pc = "idle"
  /\ \E n \in 0..MaxOptions, defaults \in MultiDefaults :
       IF "RAW" \notin flags
         THEN /\ last_ev' = "multiselect_not_raw"
              /\ UNCHANGED <<pc, flags, write_buffer, selVars>>
       ELSE IF n = 0
         THEN /\ last_ev' = "step"
              /\ UNCHANGED <<pc, flags, write_buffer, selVars>>
       ELSE /\ sel_kind' = "multiSelect" /\ sel_n' = n /\ sel_cur' = 0
            /\ sel_flags' = {idx \in defaults : idx >= 0 /\ idx < n}
            /\ flags' = CursorShowFlags(flags, FALSE)
            /\ write_buffer' =
                 TerminalWrite(TerminalWrite(CursorShowBuf(write_buffer, FALSE),
                                             Prompt), MultiPromptTail)
            /\ pc' = "select_draw" /\ last_ev' = "step"
  /\ tty_out' = << >>
  /\ UNCHANGED <<exit_ret, sig_i, original_termios, raw_termios, color_support,
                 cached_size, tty_fd, resize_pending, resize_callback, orig_sig,
                 osVars, envVars, auxVars, last_render, loaderVars, histVars>>

\* the head of the loop: draw the options, flush, and enter terminal_read_key,
\* which flushes and waits for input when raw mode is active
SelectDraw ==
  /\ Alive /\ pc = "select_draw"
  /\ write_buffer' =
       FlushBuffer(DrawOptions(write_buffer, sel_kind, 0, sel_n, sel_cur, sel_flags))
  /\ pc' = "select_wait" /\ last_ev' = "step"
  /\ tty_out' = << >>
  /\ UNCHANGED <<exit_ret, sig_i, flags, original_termios, raw_termios,
                 color_support, cached_size, tty_fd, resize_pending, resize_callback,
                 orig_sig, osVars, envVars, auxVars, last_render, loaderVars, selVars, histVars>>

\* terminal_read_key returns and the loop body handles the key: the loop
\* either goes round again after terminal_cursor_up, or ends, shows the cursor and
\* returns (its locals are gone). A result that is not above 0 changes nothing
\* and the loop goes round again
SelectKey ==
  /\ Alive /\ pc = "select_wait"
  /\ \E key \in (IF "RAW" \in flags THEN KeyEvents ELSE {"error"}) :
       LET running == key \notin {"enter", "esc", "ctrl+c"} IN
         IF running
           THEN /\ sel_cur' = IF key = "up" THEN (sel_cur - 1 + sel_n) % sel_n
                              ELSE IF key = "down" THEN (sel_cur + 1) % sel_n
                              ELSE sel_cur
                /\ sel_flags' = IF key = "space" /\ sel_kind = "multiSelect"
                                  THEN IF sel_cur \in sel_flags
                                         THEN sel_flags \ {sel_cur}
                                         ELSE sel_flags \cup {sel_cur}
                                  ELSE sel_flags
                /\ write_buffer' = CursorUp(write_buffer, sel_n)
                /\ pc' = "select_draw"
                /\ last_ev' = IF key = "error" THEN "select_error" ELSE "step"
                /\ UNCHANGED <<flags, sel_kind, sel_n>>
           ELSE /\ flags' = CursorShowFlags(flags, TRUE)
                /\ write_buffer' = CursorShowBuf(write_buffer, TRUE)
                /\ pc' = "idle" /\ last_ev' = "step"
                /\ sel_kind' = "none" /\ sel_n' = 0 /\ sel_cur' = 0
                /\ sel_flags' = {}
  /\ tty_out' = << >>
  /\ UNCHANGED <<exit_ret, sig_i, original_termios, raw_termios, color_support,
                 cached_size, tty_fd, resize_pending, resize_callback, orig_sig,
                 osVars, envVars, auxVars, last_render, loaderVars, histVars>>

----------------------------------------------------------------------------
(* Terminal::readKey(), Terminal::cursorPosition() *)

\* faulty variant for C16: the raw-mode check of terminal_read_key left out
AssumedRaw(f) == TRUE

\* terminal_read_key: the raw-mode check it starts with
ReadKeyRaw(f) == "RAW" \in f

\* faulty variant for C14: terminal_read_key waits without flushing
ReadKeyNoFlush(buf) == buf

\* terminal_read_key: "flush output before reading"
ReadKeyFlush(buf) == FlushBuffer(buf)

\* readKey(timeout) up to select(2): without raw mode terminal_read_key
\* returns -1 at once and the method throws; else the buffer is flushed and
\* the call waits for input
ReadKeyCall ==
  /\ Alive /\ pc = "idle"
  /\ IF ~ReadKeyRaw(flags)
       THEN /\ last_ev' = "readkey_not_raw"
            /\ tty_out' = << >>
            /\ UNCHANGED <<pc, write_buffer>>
       ELSE /\ write_buffer' = ReadKeyFlush(write_buffer)
            /\ tty_out' = write_buffer
            /\ pc' = "readkey_wait"
            /\ last_ev' = "step"
  /\ UNCHANGED <<exit_ret, sig_i, flags, original_termios, raw_termios,
                 color_support, cached_size, tty_fd, resize_pending, resize_callback,
                 orig_sig, osVars, envVars, auxVars, last_render, loaderVars, selVars,
                 histVars>>

\* the results of the wait: a key was read, the timeout passed, select(2) or
\* read(2) failed
KeyResults == {"key", "timeout", "failed"}

\* select(2) returns and, if input is there, read(2) takes it: the method
\* returns the key or null, or throws
ReadKeyReturn ==
  /\ Alive /\ pc = "readkey_wait"
  /\ \E result \in KeyResults :
       last_ev' = IF result = "key" THEN "readkey_key"
                  ELSE IF result = "timeout" THEN "readkey_timeout"
                  ELSE "readkey_failed"
  /\ pc' = "idle"
  /\ tty_out' = << >>
  /\ UNCHANGED <<exit_ret, sig_i, stateVars, osVars, envVars, auxVars, last_render,
                 loaderVars, selVars, histVars>>

\* the cursor position request, ESC [ 6 n
SeqCursorQuery == <<ESC, 91, 54, 110>>

\* cursorPosition() up to the wait for the reply: without raw mode
\* terminal_get_cursor_position returns -1 at once and the method throws; else
\* the buffer is flushed and the request written straight to stdout
CursorPositionCall ==
  /\ Alive /\ pc = "idle"
  /\ IF "RAW" \notin flags
       THEN /\ last_ev' = "cursorpos_not_raw"
            /\ tty_out' = << >>
            /\ UNCHANGED <<pc, write_buffer>>
       ELSE \E write_ok \in BOOLEAN :
            /\ write_buffer' = FlushBuffer(write_buffer)
            /\ tty_out' = IF write_ok THEN write_buffer \o SeqCursorQuery
                          ELSE write_buffer
            /\ pc' = IF write_ok THEN "cursorpos_wait" ELSE "idle"
            /\ last_ev' = IF write_ok THEN "step" ELSE "cursorpos_failed"
  /\ UNCHANGED <<exit_ret, sig_i, flags, original_termios, raw_termios,
                 color_support, cached_size, tty_fd, resize_pending, resize_callback,
                 orig_sig, osVars, envVars, auxVars, last_render, loaderVars, selVars,
                 histVars>>

\* the reply is read byte by byte and parsed, or the wait times out: the
\* method returns the position or throws
CursorPositionReturn ==
  /\ Alive /\ pc = "cursorpos_wait"
  /\ \E ok \in BOOLEAN :
       last_ev' = IF ok THEN "cursorpos_ok" ELSE "cursorpos_failed"
  /\ pc' = "idle"
  /\ tty_out' = << >>
  /\ UNCHANGED <<exit_ret, sig_i, stateVars, osVars, envVars, auxVars, last_render,
                 loaderVars, selVars, histVars>>

----------------------------------------------------------------------------
(* Terminal::table() *)

\* the most columns and rows of the tables rendered
MaxCols == 2
MaxRows == 1

\* the "border" options tried
Borders == {"none", "ascii"}

\* the header of column i and the cell of column i in every row: one
\* character each, so every column is 1 wide and nothing is truncated
HeaderText(i) == <<65 + i>>
CellText(i) == <<97 + i>>

\* the default padding
TablePadding == <<32>>

RECURSIVE TableRule(_, _)
\* a border line after its corner: "---" and a joint for each column but the
\* last, "---" and the corner for the last, newline
TableRule(i, num_cols) ==
  IF i >= num_cols THEN << <<10>> >>
  ELSE << <<45, 45, 45>>, <<43>> >> \o TableRule(i + 1, num_cols)

RECURSIVE TableLine(_, _, _, _)
\* a header or data line after its left border: padding, text, padding and the
\* separator for each column, newline
TableLine(i, num_cols, header, border) ==
  IF i >= num_cols THEN << <<10>> >>
  ELSE << TablePadding, IF header THEN HeaderText(i) ELSE CellText(i), TablePadding,
          IF border # "none" THEN <<124>> ELSE << >> >>
       \o TableLine(i + 1, num_cols, header, border)

\* the left border of a header or data line
TableLeft(border) == IF border # "none" THEN << <<124>> >> ELSE << >>

RECURSIVE TableRows(_, _, _)
\* the data lines
TableRows(num_rows, num_cols, border) ==
  IF num_rows <= 0 THEN << >>
  ELSE TableLeft(border) \o TableLine(0, num_cols, FALSE, border)
         \o TableRows(num_rows - 1, num_cols, border)

\* the strings terminal_render_table writes for num_cols >= 1 columns, in
\* order: top border, header line, separator, data lines, bottom border
TableBytes(num_cols, num_rows, border) ==
  LET rule == IF border # "none" THEN << <<43>> >> \o TableRule(0, num_cols) ELSE << >>
  IN  rule \o TableLeft(border) \o TableLine(0, num_cols, TRUE, border) \o rule
        \o TableRows(num_rows, num_cols, border) \o rule

\* Terminal::table(headers, rows, options): nothing for an empty header list;
\* else the table is written and the buffer flushed
Table ==
  /\ Alive /\ pc = "idle"
  /\ \E num_cols \in 0..MaxCols, num_rows \in 0..MaxRows, border \in Borders :
       IF num_cols = 0
         THEN /\ tty_out' = << >>
              /\ last_ev' = "table_empty"
              /\ UNCHANGED write_buffer
         ELSE /\ write_buffer' =
                   OutFlush(OutAll(OutStart(write_buffer),
                                   TableBytes(num_cols, num_rows, border))).buf
              /\ tty_out' =
                   OutFlush(OutAll(OutStart(write_buffer),
                                   TableBytes(num_cols, num_rows, border))).out
              /\ last_ev' = "table"
  /\ UNCHANGED <<ctlVars, flags, original_termios, raw_termios, color_support,
                 cached_size, tty_fd, resize_pending, resize_callback, orig_sig,
                 osVars, envVars, auxVars, last_render, loaderVars, selVars, histVars>>

----------------------------------------------------------------------------
(* terminal_write and terminal_flush_buffer, statement by statement *)

\* the longest string written: more than twice the capacity
MaxWrite == 2 * WRITE_BUFFER_SIZE + 1

\* the string of a write of len bytes: "1010..."
WriteArg(len) == [i \in 1..len |-> 48 + (i % 2)]

\* faulty variant for C13: the buffer is flushed only once past its capacity
FullPastCapacity(pos) == pos > WRITE_BUFFER_SIZE

\* terminal_write: the test that flushes the buffer inside the loop
BufferFull(pos) == pos >= WRITE_BUFFER_SIZE

\* a flush that calls write(2) even with nothing pending
FlushAlwaysWrites(buf) == << Len(buf) >>

\* terminal_flush_buffer: the byte counts of the write(2) calls it issues
FlushSyscalls(buf) == IF Len(buf) > 0 THEN << Len(buf) >> ELSE << >>

\* terminal_write(str, len) is called, with the state present
WriteCall ==
  /\ Alive /\ pc = "idle" /\ w_pc = "none"
  /\ \E len \in 0..MaxWrite :
       /\ w_str' = WriteArg(len)
       /\ w_arg' = WriteArg(len)
  /\ w_buf0' = write_buffer
  /\ w_sys' = << >> /\ w_out' = << >>
  /\ w_pc' = "loop"
  /\ last_ev' = "step"
  /\ tty_out' = << >>
  /\ UNCHANGED <<ctlVars, stateVars, osVars, envVars, loaderVars, barVars, now,
                 last_registered, textVars, last_render, selVars, histVars>>

\* one pass of the loop up to the test: available, to_copy, memcpy, the
\* cursor and the string advanced
WriteCopy ==
  /\ w_pc = "loop" /\ Len(w_str) > 0
  /\ LET available == WRITE_BUFFER_SIZE - Len(write_buffer)
         to_copy   == Min(Len(w_str), available)
     IN  /\ write_buffer' = write_buffer \o SubSeq(w_str, 1, to_copy)
         /\ w_str' = SubSeq(w_str, to_copy + 1, Len(w_str))
  /\ w_pc' = "test"
  /\ last_ev' = "step"
  /\ tty_out' = << >>
  /\ UNCHANGED <<ctlVars, flags, original_termios, raw_termios, color_support,
                 cached_size, tty_fd, resize_pending, resize_callback, orig_sig,
                 osVars, envVars, loaderVars, barVars, now, w_buf0, w_arg, w_sys, w_out,
                 last_registered, textVars, last_render, selVars, histVars>>

\* the end of the pass: terminal_flush_buffer() when the buffer is full
WriteTest ==
  /\ w_pc = "test"
  /\ IF BufferFull(Len(write_buffer))
       THEN /\ write_buffer' = FlushBuffer(write_buffer)
            /\ tty_out' = write_buffer
            /\ w_sys' = w_sys \o FlushSyscalls(write_buffer)
            /\ w_out' = w_out \o write_buffer
       ELSE /\ tty_out' = << >>
            /\ UNCHANGED <<write_buffer, w_sys, w_out>>
  /\ w_pc' = "loop"
  /\ last_ev' = "step"
  /\ UNCHANGED <<ctlVars, flags, original_termios, raw_termios, color_support,
                 cached_size, tty_fd, resize_pending, resize_callback, orig_sig,
                 osVars, envVars, loaderVars, barVars, now, w_str, w_buf0, w_arg,
                 last_registered, textVars, last_render, selVars, histVars>>

\* len is 0: terminal_write returns
WriteReturn ==
  /\ w_pc = "loop" /\ Len(w_str) = 0
  /\ w_pc' = "none"
  /\ last_ev' = "write"
  /\ tty_out' = << >>
  /\ UNCHANGED <<ctlVars, stateVars, osVars, envVars, loaderVars, barVars, now,
                 w_str, w_buf0, w_arg, w_sys, w_out, last_registered, textVars,
                 last_render, selVars, histVars>>

\* terminal_flush_buffer() called on its own
FlushCall ==
  /\ Alive /\ pc = "idle" /\ w_pc = "none"
  /\ write_buffer' = FlushBuffer(write_buffer)
  /\ tty_out' = write_buffer
  /\ w_buf0' = write_buffer /\ w_arg' = << >>
  /\ w_sys' = FlushSyscalls(write_buffer)
  /\ w_out' = write_buffer
  /\ last_ev' = "flush"
  /\ UNCHANGED <<ctlVars, flags, original_termios, raw_termios, color_support,
                 cached_size, tty_fd, resize_pending, resize_callback, orig_sig,
                 osVars, envVars, loaderVars, barVars, now, w_pc, w_str,
                 last_registered, textVars, last_render, selVars, histVars>>

----------------------------------------------------------------------------
(* Colour capability queries *)

\* COLOR_NONE, COLOR_16, COLOR_256, COLOR_TRUECOLOR as the header numbers them
ColorLevel(cs) ==
  CASE cs = "COLOR_NONE"      -> 0
    [] cs = "COLOR_16"        -> 1
    [] cs = "COLOR_256"       -> 2
    [] cs = "COLOR_TRUECOLOR" -> 3

\* Terminal::supportsColor
SupportsColor == ColorLevel(color_support) >= ColorLevel("COLOR_16")

\* a query that answers for its own level only
Only256Color == color_support = "COLOR_256"

\* Terminal::supports256Color
Supports256Color == ColorLevel(color_support) >= ColorLevel("COLOR_256")

\* Terminal::supportsTrueColor
SupportsTrueColor == ColorLevel(color_support) >= ColorLevel("COLOR_TRUECOLOR")

----------------------------------------------------------------------------
(* Display width of UTF-8 text *)

\* unicode_char_width: 0 for control and zero-width code points, 2 for wide
\* and emoji ranges, 1 otherwise
unicode_char_width(cp) ==
  IF cp < 32 \/ cp = 127 THEN 0
  ELSE IF cp < 127 THEN 1
  ELSE IF \/ cp \in 768..879 \/ cp \in 6832..6911 \/ cp \in 7616..7679
          \/ cp \in 8400..8447 \/ cp \in 65024..65039 \/ cp \in 65056..65071
          \/ cp \in {8203, 8204, 8205, 65279}
    THEN 0
  ELSE IF \/ cp \in 4352..4447 \/ cp \in 11904..40959 \/ cp \in 44032..55203
          \/ cp \in 63744..64255 \/ cp \in 65040..65055 \/ cp \in 65072..65135
          \/ cp \in 65280..65376 \/ cp \in 65504..65510
          \/ cp \in 131072..196607 \/ cp \in 196608..262143
    THEN 2
  ELSE IF cp \in 127744..129535 \/ cp \in 9728..9983 \/ cp \in 9984..10175
    THEN 2
  ELSE 1

\* str[k] of a NUL-terminated string, k from 1
ByteAt(str, k) == IF k <= Len(str) THEN str[k] ELSE 0

\* a decoder that trusts the lead byte: the length tests of the multi-byte
\* branches left out, the bytes after the lead read wherever they lie
Utf8CharWidthUnchecked(str, pos) ==
  LET len == Len(str) - pos + 1
      b(k) == ByteAt(str, pos + k)
  IN  IF len <= 0 THEN [bytes |-> 0, width |-> 0]
      ELSE IF b(0) < 128
        THEN [bytes |-> 1, width |-> unicode_char_width(b(0))]
      ELSE IF b(0) \div 32 = 6
        THEN [bytes |-> 2,
              width |-> unicode_char_width((b(0) % 32) * 64 + (b(1) % 64))]
      ELSE IF b(0) \div 16 = 14
        THEN [bytes |-> 3,
              width |-> unicode_char_width((b(0) % 16) * 4096 + (b(1) % 64) * 64
                                           + (b(2) % 64))]
      ELSE IF b(0) \div 8 = 30
        THEN [bytes |-> 4,
              width |-> unicode_char_width((b(0) % 8) * 262144 + (b(1) % 64) * 4096
                                           + (b(2) % 64) * 64 + (b(3) % 64))]
      ELSE [bytes |-> 1, width |-> 1]

\* terminal_utf8_char_width(str + pos, len - pos, &bytes), pos counted from 1:
\* the bytes consumed and the width; continuation bytes are not validated
terminal_utf8_char_width(str, pos) ==
  LET len == Len(str) - pos + 1
      b(k) == str[pos + k]
  IN  IF len <= 0 THEN [bytes |-> 0, width |-> 0]
      ELSE IF b(0) < 128
        THEN [bytes |-> 1, width |-> unicode_char_width(b(0))]
      ELSE IF b(0) \div 32 = 6 /\ len >= 2
        THEN [bytes |-> 2,
              width |-> unicode_char_width((b(0) % 32) * 64 + (b(1) % 64))]
      ELSE IF b(0) \div 16 = 14 /\ len >= 3
        THEN [bytes |-> 3,
              width |-> unicode_char_width((b(0) % 16) * 4096 + (b(1) % 64) * 64
                                           + (b(2) % 64))]
      ELSE IF b(0) \div 8 = 30 /\ len >= 4
        THEN [bytes |-> 4,
              width |-> unicode_char_width((b(0) % 8) * 262144 + (b(1) % 64) * 4096
                                           + (b(2) % 64) * 64 + (b(3) % 64))]
      ELSE [bytes |-> 1, width |-> 1]

RECURSIVE DisplayWidthFrom(_, _)
\* the loop of terminal_display_width from position pos
DisplayWidthFrom(str, pos) ==
  IF pos > Len(str) THEN 0
  ELSE LET c == terminal_utf8_char_width(str, pos)
       IN  c.width + DisplayWidthFrom(str, pos + c.bytes)

\* terminal_display_width(str, len)
terminal_display_width(str) == DisplayWidthFrom(str, 1)

\* isalpha in the C locale
IsAlpha(b) == b \in 65..90 \/ b \in 97..122

RECURSIVE SkipAnsi(_, _)
\* the inner loop of display_width_strip_ansi: the position after the final
\* character of the sequence whose parameters start at pos
SkipAnsi(str, pos) ==
  IF pos <= Len(str) /\ ~IsAlpha(str[pos]) /\ str[pos] # 126
    THEN SkipAnsi(str, pos + 1)
    ELSE IF pos <= Len(str) THEN pos + 1 ELSE pos

RECURSIVE StripWidthFrom(_, _)
\* the loop of display_width_strip_ansi from position pos
StripWidthFrom(str, pos) ==
  IF pos > Len(str) THEN 0
  ELSE IF str[pos] = ESC /\ pos + 1 <= Len(str) /\ str[pos + 1] = 91
    THEN StripWidthFrom(str, SkipAnsi(str, pos + 2))
  ELSE LET c == terminal_utf8_char_width(str, pos)
       IN  c.width + StripWidthFrom(str, pos + c.bytes)

RECURSIVE CharCountFrom(_, _)
\* the number of characters from position pos, whatever their widths
CharCountFrom(str, pos) ==
  IF pos > Len(str) THEN 0
  ELSE 1 + CharCountFrom(str, pos + terminal_utf8_char_width(str, pos).bytes)

\* a measure that counts characters instead of columns
CharCount(str) == CharCountFrom(str, 1)

\* display_width_strip_ansi(str, len)
display_width_strip_ansi(str) == StripWidthFrom(str, 1)

RECURSIVE DisplayScanFrom(_, _)
\* the passes of the loop of terminal_display_width from position pos: the
\* read position, the bytes the decode step consumed and the width it gave
DisplayScanFrom(str, pos) ==
  IF pos > Len(str) THEN << >>
  ELSE LET c == terminal_utf8_char_width(str, pos)
       IN  << [kind |-> "char", pos |-> pos, bytes |-> c.bytes, width |-> c.width] >>
           \o DisplayScanFrom(str, pos + c.bytes)

RECURSIVE StripScanFrom(_, _)
\* the passes of the outer loop of display_width_strip_ansi from position
\* pos: a skipped escape sequence or a decode step
StripScanFrom(str, pos) ==
  IF pos > Len(str) THEN << >>
  ELSE IF str[pos] = ESC /\ pos + 1 <= Len(str) /\ str[pos + 1] = 91
    THEN << [kind |-> "csi", pos |-> pos, bytes |-> SkipAnsi(str, pos + 2) - pos,
             width |-> 0] >>
         \o StripScanFrom(str, SkipAnsi(str, pos + 2))
  ELSE LET c == terminal_utf8_char_width(str, pos)
       IN  << [kind |-> "char", pos |-> pos, bytes |-> c.bytes, width |-> c.width] >>
           \o StripScanFrom(str, pos + c.bytes)

\* pos when the loop whose passes are given is left
ScanEnd(passes) ==
  IF passes = << >> THEN 1
  ELSE passes[Len(passes)].pos + passes[Len(passes)].bytes

----------------------------------------------------------------------------
(* Colours and styles *)

\* color_map: name (as bytes), foreground code, background code
color_map ==
  <<
    \* "black"
    [name |-> <<98, 108, 97, 99, 107>>,
     fg_code |-> 30, bg_code |-> 40],
    \* "red"
    [name |-> <<114, 101, 100>>,
     fg_code |-> 31, bg_code |-> 41],
    \* "green"
    [name |-> <<103, 114, 101, 101, 110>>,
     fg_code |-> 32, bg_code |-> 42],
    \* "yellow"
    [name |-> <<121, 101, 108, 108, 111, 119>>,
     fg_code |-> 33, bg_code |-> 43],
    \* "blue"
    [name |-> <<98, 108, 117, 101>>,
     fg_code |-> 34, bg_code |-> 44],
    \* "magenta"
    [name |-> <<109, 97, 103, 101, 110, 116, 97>>,
     fg_code |-> 35, bg_code |-> 45],
    \* "cyan"
    [name |-> <<99, 121, 97, 110>>,
     fg_code |-> 36, bg_code |-> 46],
    \* "white"
    [name |-> <<119, 104, 105, 116, 101>>,
     fg_code |-> 37, bg_code |-> 47],
    \* "bright_black"
    [name |-> <<98, 114, 105, 103, 104, 116, 95, 98, 108, 97, 99, 107>>,
     fg_code |-> 90, bg_code |-> 100],
    \* "bright_red"
    [name |-> <<98, 114, 105, 103, 104, 116, 95, 114, 101, 100>>,
     fg_code |-> 91, bg_code |-> 101],
    \* "bright_green"
    [name |-> <<98, 114, 105, 103, 104, 116, 95, 103, 114, 101, 101, 110>>,
     fg_code |-> 92, bg_code |-> 102],
    \* "bright_yellow"
    [name |-> <<98, 114, 105, 103, 104, 116, 95, 121, 101, 108, 108, 111, 119>>,
     fg_code |-> 93, bg_code |-> 103],
    \* "bright_blue"
    [name |-> <<98, 114, 105, 103, 104, 116, 95, 98, 108, 117, 101>>,
     fg_code |-> 94, bg_code |-> 104],
    \* "bright_magenta"
    [name |-> <<98, 114, 105, 103, 104, 116, 95, 109, 97, 103, 101, 110, 116, 97>>,
     fg_code |-> 95, bg_code |-> 105],
    \* "bright_cyan"
    [name |-> <<98, 114, 105, 103, 104, 116, 95, 99, 121, 97, 110>>,
     fg_code |-> 96, bg_code |-> 106],
    \* "bright_white"
    [name |-> <<98, 114, 105, 103, 104, 116, 95, 119, 104, 105, 116, 101>>,
     fg_code |-> 97, bg_code |-> 107],
    \* "default"
    [name |-> <<100, 101, 102, 97, 117, 108, 116>>,
     fg_code |-> 39, bg_code |-> 49] >>

\* tolower in the C locale
ToLower(b) == IF b \in 65..90 THEN b + 32 ELSE b

\* a comparison that tells upper case from lower case
StrEq(a, b) == a = b

\* strcasecmp(a, b) == 0
StrCaseEq(a, b) ==
  Len(a) = Len(b) /\ \A i \in 1..Len(a) : ToLower(a[i]) = ToLower(b[i])

\* the value of a hexadecimal digit, -1 for any other byte
HexVal(b) ==
  IF b \in 48..57 THEN b - 48
  ELSE IF b \in 97..102 THEN b - 87
  ELSE IF b \in 65..70 THEN b - 55
  ELSE -1

\* the values an int that was never assigned may be read as
Indeterminate == {-1, 255}

\* one %2x or %1x conversion at position pos of a string of letters and
\* digits: the value and the position after it, or matched FALSE when the
\* byte at pos is not a hexadecimal digit (or the string has ended)
ScanHexField(name, pos, w) ==
  IF pos > Len(name) \/ HexVal(name[pos]) < 0
    THEN [matched |-> FALSE, val |-> 0, next |-> pos]
  ELSE IF w = 2 /\ pos + 1 <= Len(name) /\ HexVal(name[pos + 1]) >= 0
    THEN [matched |-> TRUE, val |-> 16 * HexVal(name[pos]) + HexVal(name[pos + 1]),
          next |-> pos + 2]
  ELSE [matched |-> TRUE, val |-> HexVal(name[pos]), next |-> pos + 1]

\* sscanf(name + 1, "%wx%wx%wx", &r, &g, &b) with its return value ignored:
\* the triples the three ints may hold afterwards; a conversion that does not
\* match ends the scan and leaves its int and the later ones unassigned
ScanHex(name, w) ==
  LET f1 == ScanHexField(name, 2, w)
      f2 == ScanHexField(name, f1.next, w)
      f3 == ScanHexField(name, f2.next, w)
      m1 == f1.matched
      m2 == m1 /\ f2.matched
      m3 == m2 /\ f3.matched
  IN  { <<r, g, b>> : r \in (IF m1 THEN {f1.val} ELSE Indeterminate),
                      g \in (IF m2 THEN {f2.val} ELSE Indeterminate),
                      b \in (IF m3 THEN {f3.val} ELSE Indeterminate) }

\* an RGB code whose 256-colour index rounds each channel to the nearest
\* palette level instead of truncating
RgbCodeRounded(r, g, b, is_bg, cs) ==
  IF ColorLevel(cs) >= ColorLevel("COLOR_TRUECOLOR")
    THEN Dec(IF is_bg THEN 48 ELSE 38) \o <<59, 50, 59>> \o Dec(r) \o <<59>>
         \o Dec(g) \o <<59>> \o Dec(b)
  ELSE IF ColorLevel(cs) >= ColorLevel("COLOR_256")
    THEN Dec(IF is_bg THEN 48 ELSE 38) \o <<59, 53, 59>>
         \o Dec(16 + CDiv(r + 25, 51) * 36 + CDiv(g + 25, 51) * 6 + CDiv(b + 25, 51))
  ELSE LET bright == (r + g + b) > 384
           index  == (IF r > 127 THEN 1 ELSE 0) + (IF g > 127 THEN 2 ELSE 0)
                     + (IF b > 127 THEN 4 ELSE 0)
       IN  Dec((IF is_bg THEN 40 ELSE 30) + index + (IF bright THEN 60 ELSE 0))

\* the code of an RGB colour at the capability cs: "38;2;r;g;b", "38;5;n" or
\* one of the sixteen basic codes
RgbCode(r, g, b, is_bg, cs) ==
  IF ColorLevel(cs) >= ColorLevel("COLOR_TRUECOLOR")
    THEN Dec(IF is_bg THEN 48 ELSE 38) \o <<59, 50, 59>> \o Dec(r) \o <<59>>
         \o Dec(g) \o <<59>> \o Dec(b)
  ELSE IF ColorLevel(cs) >= ColorLevel("COLOR_256")
    THEN Dec(IF is_bg THEN 48 ELSE 38) \o <<59, 53, 59>>
         \o Dec(16 + CDiv(r, 51) * 36 + CDiv(g, 51) * 6 + CDiv(b, 51))
  ELSE LET bright == (r + g + b) > 384
           index  == (IF r > 127 THEN 1 ELSE 0) + (IF g > 127 THEN 2 ELSE 0)
                     + (IF b > 127 THEN 4 ELSE 0)
       IN  Dec((IF is_bg THEN 40 ELSE 30) + index + (IF bright THEN 60 ELSE 0))

\* the return value -1 of terminal_parse_color
ParseFailed == [ret |-> -1, buf |-> << >>]

\* a return value above 0 with the code in the buffer
Parsed(code) == [ret |-> Len(code), buf |-> code]

\* the palette entries a name matches under the comparison eq
PaletteMatches(name, eq(_, _)) ==
  { i \in 1..Len(color_map) : eq(name, color_map[i].name) }

\* a palette lookup that does not fold case
NamedColorExact(name, is_bg) ==
  LET hits == PaletteMatches(name, StrEq)
  IN  IF hits = {} THEN {ParseFailed}
      ELSE LET cm == color_map[CHOOSE i \in hits : \A j \in hits : i <= j]
           IN  {Parsed(Dec(IF is_bg THEN cm.bg_code ELSE cm.fg_code))}

\* terminal_parse_color: the loop over color_map, first match wins
NamedColor(name, is_bg) ==
  LET hits == PaletteMatches(name, StrCaseEq)
  IN  IF hits = {} THEN {ParseFailed}
      ELSE LET cm == color_map[CHOOSE i \in hits : \A j \in hits : i <= j]
           IN  {Parsed(Dec(IF is_bg THEN cm.bg_code ELSE cm.fg_code))}

\* the clamp of a channel to 0..255
Clamp255(v) == IF v < 0 THEN 0 ELSE IF v > 255 THEN 255 ELSE v

\* terminal_parse_color, a string of length 4 or 7 that starts with '#': the
\* results it may return
HexColor(name, is_bg, cs) ==
  LET w == IF Len(name) = 7 THEN 2 ELSE 1
  IN  { Parsed(RgbCode(IF w = 1 THEN t[1] * 17 ELSE t[1],
                       IF w = 1 THEN t[2] * 17 ELSE t[2],
                       IF w = 1 THEN t[3] * 17 ELSE t[3], is_bg, cs)) :
        t \in ScanHex(name, w) }

\* terminal_parse_color(color, is_bg, buf, size) with the state present: the
\* set of results it may return. A colour is [type, val]: a string of bytes,
\* an array as a function from its integer keys, or a value of another type
terminal_parse_color(color, is_bg, cs) ==
  IF color.type = "string"
    THEN IF Len(color.val) \in {4, 7} /\ color.val[1] = 35
           THEN HexColor(color.val, is_bg, cs)
           ELSE NamedColor(color.val, is_bg)
  ELSE IF color.type = "array"
    THEN IF Cardinality(DOMAIN color.val) # 3 \/ ~({0, 1, 2} \subseteq DOMAIN color.val)
           THEN {ParseFailed}
           ELSE {Parsed(RgbCode(Clamp255(color.val[0]), Clamp255(color.val[1]),
                                Clamp255(color.val[2]), is_bg, cs))}
  ELSE {ParseFailed}

\* the attribute keys in the order terminal_apply_style tests them, with the
\* SGR code each one contributes
StyleAttributes ==
  << [key |-> "bold", code |-> <<49>>], [key |-> "dim", code |-> <<50>>],
     [key |-> "italic", code |-> <<51>>], [key |-> "underline", code |-> <<52>>],
     [key |-> "blink", code |-> <<53>>], [key |-> "reverse", code |-> <<55>>] >>

\* snprintf(codes + codes_len, ..., "%s%s", codes_len > 0 ? ";" : "", code)
AppendCode(codes, code) ==
  IF Len(codes) > 0 THEN codes \o <<59>> \o code ELSE code

\* a colour step that appends whatever terminal_parse_color left, even -1
ColourCodeUnchecked(codes, styles, key, res) ==
  IF key \in DOMAIN styles
    THEN AppendCode(codes, IF res.ret > 0 THEN res.buf ELSE <<63>>)
    ELSE codes

\* the "fg" / "bg" step of terminal_apply_style: res is what
\* terminal_parse_color returned for the key, used when the key is present
ColourCode(codes, styles, key, res) ==
  IF key \in DOMAIN styles /\ res.ret > 0 THEN AppendCode(codes, res.buf) ELSE codes

RECURSIVE AttributeCodes(_, _, _)
\* the attribute steps from the i-th on: present and zend_is_true
AttributeCodes(codes, styles, i) ==
  IF i > Len(StyleAttributes) THEN codes
  ELSE LET a == StyleAttributes[i]
       IN  AttributeCodes(IF a.key \in DOMAIN styles /\ styles[a.key]
                            THEN AppendCode(codes, a.code) ELSE codes,
                          styles, i + 1)

\* a wrap that is applied even when no code was collected
WrapAlways(text, codes) == <<ESC, 91>> \o codes \o <<109>> \o text \o <<ESC, 91, 48, 109>>

\* the end of terminal_apply_style: the text itself when no code was
\* collected, else ESC [ codes m text ESC [ 0 m
Wrap(text, codes) ==
  IF Len(codes) = 0 THEN text
  ELSE <<ESC, 91>> \o codes \o <<109>> \o text \o <<ESC, 91, 48, 109>>

\* what terminal_parse_color may return for a key of the styles, when present
KeyColour(styles, key, is_bg, cs) ==
  IF key \in DOMAIN styles THEN terminal_parse_color(styles[key], is_bg, cs)
  ELSE {ParseFailed}

\* terminal_apply_style(text, len, styles, &result), styles an array (a
\* function from the keys present): the strings it may return
terminal_apply_style(text, styles, cs) ==
  { Wrap(text, AttributeCodes(ColourCode(ColourCode(<< >>, styles, "fg", fg),
                                         styles, "bg", bg), styles, 1)) :
    fg \in KeyColour(styles, "fg", FALSE, cs),
    bg \in KeyColour(styles, "bg", TRUE, cs) }

\* the texts styled and measured: "", "x", "a" ESC "[31m" "b", the wide
\* character U+4E2D, "e" followed by the combining accent U+0301, ESC "[1m"
Texts ==
  { << >>, <<120>>, <<97, ESC, 91, 51, 49, 109, 98>>, <<228, 184, 173>>,
    <<101, 204, 129>>, <<ESC, 91, 49, 109>> }

\* a string colour from its bytes
Str(bytes) == [type |-> "string", val |-> bytes]

\* palette names as a script may spell them: "red", "RED", "Blue",
\* "bright_cyan", "default", "black", "Bright_White"
NameColours ==
  { Str(<<114, 101, 100>>), Str(<<82, 69, 68>>), Str(<<66, 108, 117, 101>>),
    Str(<<98, 114, 105, 103, 104, 116, 95, 99, 121, 97, 110>>),
    Str(<<100, 101, 102, 97, 117, 108, 116>>), Str(<<98, 108, 97, 99, 107>>),
    Str(<<66, 114, 105, 103, 104, 116, 95, 87, 104, 105, 116, 101>>) }

\* well-formed hex colours: "#ff0000", "#F80", "#000"
HexColours ==
  { Str(<<35, 102, 102, 48, 48, 48, 48>>), Str(<<35, 70, 56, 48>>),
    Str(<<35, 48, 48, 48>>) }

\* strings that are neither: "purple", "", "#", "#12345", "#1234567", "#GGG",
\* "#12345G", "#G00", "re"
BadStrings ==
  { Str(<<112, 117, 114, 112, 108, 101>>), Str(<< >>), Str(<<35>>),
    Str(<<35, 49, 50, 51, 52, 53>>), Str(<<35, 49, 50, 51, 52, 53, 54, 55>>),
    Str(<<35, 71, 71, 71>>), Str(<<35, 49, 50, 51, 52, 53, 71>>),
    Str(<<35, 71, 48, 48>>), Str(<<114, 101>>) }

\* an array colour from the function of its integer keys
Arr(f) == [type |-> "array", val |-> f]

\* RGB arrays with keys 0, 1, 2: [255, 0, 0], [300, -5, 128]
RgbArrays ==
  { Arr((0 :> 255) @@ (1 :> 0) @@ (2 :> 0)), Arr((0 :> 300) @@ (1 :> -5) @@ (2 :> 128)) }

\* arrays that are not RGB triples: two elements, four elements, three
\* elements at keys 1, 2, 3, three elements at keys 0, 1, 3
BadArrays ==
  { Arr((0 :> 255) @@ (1 :> 0)),
    Arr((0 :> 255) @@ (1 :> 0) @@ (2 :> 0) @@ (3 :> 0)),
    Arr((1 :> 255) @@ (2 :> 0) @@ (3 :> 0)),
    Arr((0 :> 255) @@ (1 :> 0) @@ (3 :> 0)) }

\* a colour that is neither a string nor an array: the integer 5 (held in a
\* tuple, as every val is a function)
OtherColours == { [type |-> "long", val |-> <<5>>] }

\* the colours passed as "fg" or "bg"
Colours ==
  NameColours \cup HexColours \cup BadStrings \cup RgbArrays \cup BadArrays
  \cup OtherColours

\* the colour keys of the styles explored: none, one of "fg" and "bg", both
ColourStyles ==
  { << >> } \cup { "fg" :> c : c \in Colours } \cup { "bg" :> c : c \in Colours }
  \cup { ("fg" :> c) @@ ("bg" :> c) : c \in NameColours \cup BadStrings }

\* the attribute keys of the styles explored
AttributeStyles ==
  { << >>, "bold" :> TRUE, "bold" :> FALSE, ("underline" :> TRUE) @@ ("bold" :> TRUE),
    ("dim" :> FALSE) @@ ("reverse" :> TRUE),
    [k \in {"bold", "dim", "italic", "underline", "blink", "reverse"} |-> FALSE] }

\* the styles arrays explored
Styles == { c @@ a : c \in ColourStyles, a \in AttributeStyles }

\* the capabilities terminal_detect_color_support may have left in the state
ColorSupports == {"COLOR_NONE", "COLOR_16", "COLOR_256", "COLOR_TRUECOLOR"}

\* Terminal::style(text, styles) is called and returns
StyleCall ==
  /\ Alive /\ pc = "idle" /\ fn = "none"
  /\ \E text \in Texts, styles \in Styles :
       /\ fn_in' = [text |-> text, styles |-> styles]
       /\ fn_out' \in terminal_apply_style(text, styles, color_support)
  /\ fn' = "style"
  /\ last_ev' = "step"
  /\ tty_out' = << >>
  /\ UNCHANGED <<ctlVars, stateVars, osVars, envVars, loaderVars, barVars, writeVars,
                 now, last_registered, last_render, selVars, histVars>>

\* channel values at and around the steps of both quantisations: the 256-colour
\* levels change at multiples of 51, the basic colours at 128, brightness at a
\* sum of 385
Channels == {0, 50, 51, 127, 128, 255}

\* "%x" of a value below 16, and "%02x" of a value below 256
HexDigit(v) == IF v < 10 THEN 48 + v ELSE 87 + v
Hex2(v) == <<HexDigit(v \div 16), HexDigit(v % 16)>>

\* the string "#rrggbb" of a triple
HexString(r, g, b) == Str(<<35>> \o Hex2(r) \o Hex2(g) \o Hex2(b))

\* the strings "#rgb" of a triple of multiples of 17, none for another triple
ShortHexStrings(r, g, b) ==
  IF r % 17 = 0 /\ g % 17 = 0 /\ b % 17 = 0
    THEN { Str(<<35, HexDigit(r \div 17), HexDigit(g \div 17), HexDigit(b \div 17)>>) }
    ELSE {}

\* terminal_parse_color applied to one RGB colour written three ways: as an
\* array, as "#rrggbb" and, where it has one, as "#rgb"
ColourCall ==
  /\ Alive /\ pc = "idle" /\ fn = "none"
  /\ \E r \in Channels, g \in Channels, b \in Channels, is_bg \in BOOLEAN :
       /\ fn_in' = [r |-> r, g |-> g, b |-> b, is_bg |-> is_bg]
       /\ fn_out' =
            [rgb   |-> terminal_parse_color(Arr((0 :> r) @@ (1 :> g) @@ (2 :> b)),
                                            is_bg, color_support),
             hex   |-> terminal_parse_color(HexString(r, g, b), is_bg, color_support),
             short |-> UNION { terminal_parse_color(s, is_bg, color_support) :
                               s \in ShortHexStrings(r, g, b) }]
  /\ fn' = "colour"
  /\ last_ev' = "step"
  /\ tty_out' = << >>
  /\ UNCHANGED <<ctlVars, stateVars, osVars, envVars, loaderVars, barVars, writeVars,
                 now, last_registered, last_render, selVars, histVars>>

\* the two width functions applied as the table code applies them: to a text
\* and to what Terminal::style returns for it with an empty styles array
WidthCall ==
  /\ Alive /\ pc = "idle" /\ fn = "none"
  /\ \E text \in Texts :
       \E styled \in terminal_apply_style(text, << >>, color_support) :
         /\ fn_in' = [text |-> text]
         /\ fn_out' = [display  |-> terminal_display_width(text),
                       styled   |-> styled,
                       stripped |-> display_width_strip_ansi(styled)]
  /\ fn' = "width"
  /\ last_ev' = "step"
  /\ tty_out' = << >>
  /\ UNCHANGED <<ctlVars, stateVars, osVars, envVars, loaderVars, barVars, writeVars,
                 now, last_registered, last_render, selVars, histVars>>

\* byte strings measured: the texts styled, and ill-formed ones: a lone
\* continuation byte, 0xFF, each multi-byte lead with too few bytes after it
\* (at the end and before an ASCII byte), a four-byte emoji, an overlong lead
\* 0xC0, ESC alone, ESC "[" alone, the unterminated sequences ESC "[31" and
\* ESC "[3" 0xE4, and text after a complete sequence
ByteStrings ==
  Texts \cup
  { <<128>>, <<255, 97>>, <<195>>, <<97, 195>>, <<228, 184>>, <<228>>,
    <<240, 159, 152>>, <<240, 159>>, <<240>>, <<240, 159, 152, 128>>,
    <<192, 128>>, <<195, 169, 228, 184, 173, 97>>, <<248, 128, 128, 128, 128>>,
    <<ESC>>, <<ESC, 91>>, <<ESC, 91, 51, 49>>, <<ESC, 91, 51, 228>>,
    <<ESC, 91, 109, 228, 184>>, <<ESC, 79, 80>>, <<7, 127, 97>> }

\* Terminal::displayWidth and the stripped width applied to one byte string,
\* with the passes of their loops
ScanCall ==
  /\ Alive /\ pc = "idle" /\ fn = "none"
  /\ \E text \in ByteStrings :
       /\ fn_in' = [text |-> text]
       /\ fn_out' = [display  |-> terminal_display_width(text),
                     stripped |-> display_width_strip_ansi(text),
                     passes   |-> DisplayScanFrom(text, 1),
                     stripped_passes |-> StripScanFrom(text, 1)]
  /\ fn' = "scan"
  /\ last_ev' = "step"
  /\ tty_out' = << >>
  /\ UNCHANGED <<ctlVars, stateVars, osVars, envVars, loaderVars, barVars, writeVars,
                 now, last_registered, last_render, selVars, histVars>>

----------------------------------------------------------------------------
(* terminal_render_table with cells of any width *)

\* n spaces, and n copies of a byte
Spaces(n) == [k \in 1..n |-> 32]
Repeated(b, n) == [k \in 1..n |-> b]

\* the largest member of a non-empty set of numbers
SetMax(S) == CHOOSE x \in S : \A y \in S : y <= x

RECURSIVE TruncateScan(_, _, _, _)
\* the loop of truncate_string: the position (from 1) it stops at, which is
\* also last_good_pos
TruncateScan(src, pos, width, limit) ==
  IF pos <= Len(src) /\ width < limit
    THEN LET c == terminal_utf8_char_width(src, pos)
         IN  IF width + c.width <= limit
               THEN TruncateScan(src, pos + c.bytes, width + c.width, limit)
               ELSE pos
    ELSE pos

\* truncate_string(src, src_len, max_width, dest, ...): the bytes left in dest
truncate_string(src, max_width) ==
  IF max_width <= 3 THEN <<46, 46, 46>>
  ELSE LET pos == TruncateScan(src, 1, 0, max_width - 3)
       IN  IF pos > Len(src) THEN src
           ELSE SubSeq(src, 1, pos - 1) \o <<46, 46, 46>>

\* pass 1: col_widths after the header loop and the row loop; a row
\* contributes the cells it has, up to num_cols
Pass1Widths(headers, rows) ==
  [i \in 1..Len(headers) |->
     SetMax({terminal_display_width(headers[i])} \cup
            { terminal_display_width(rows[r][i]) :
                r \in { q \in 1..Len(rows) : i <= Len(rows[q]) } })]

RECURSIVE TotalWidth(_, _, _, _)
\* total_width: the left border, then each column with its padding and its
\* separator, from column i on
TotalWidth(widths, i, padding, bordered) ==
  IF i > Len(widths) THEN 0
  ELSE (IF i = 1 /\ bordered THEN 1 ELSE 0) + widths[i] + padding * 2
       + (IF bordered THEN 1 ELSE 0) + TotalWidth(widths, i + 1, padding, bordered)

RECURSIVE ReduceLastColumn(_, _)
\* a shrink loop that takes from the last of the widest columns
ReduceLastColumn(widths, excess) ==
  LET max_col_width == SetMax({0} \cup { widths[i] : i \in 1..Len(widths) })
      max_col == CHOOSE i \in 1..Len(widths) :
                   /\ widths[i] = max_col_width
                   /\ \A j \in (i + 1)..Len(widths) : widths[j] < max_col_width
  IN  IF excess <= 0 \/ max_col_width <= 3 THEN widths
      ELSE ReduceLastColumn([widths EXCEPT ![max_col] = @ - 1], excess - 1)

RECURSIVE ReduceColumns(_, _)
\* the loop that takes one from the first of the widest columns while excess
\* remains and that column is wider than 3
ReduceColumns(widths, excess) ==
  LET max_col_width == SetMax({0} \cup { widths[i] : i \in 1..Len(widths) })
      max_col == CHOOSE i \in 1..Len(widths) :
                   /\ widths[i] = max_col_width
                   /\ \A j \in 1..(i - 1) : widths[j] < max_col_width
  IN  IF excess <= 0 \/ max_col_width <= 3 THEN widths
      ELSE ReduceColumns([widths EXCEPT ![max_col] = @ - 1], excess - 1)

\* the "padding" option clamped to 0..5
ClampPadding(p) == IF p < 0 THEN 0 ELSE IF p > 5 THEN 5 ELSE p

\* max_width: state->cols unless the "maxWidth" option is positive and smaller
MaxWidth(o, cols) == IF o.maxWidth > 0 /\ o.maxWidth < cols THEN o.maxWidth ELSE cols

\* col_widths as the render pass uses them
ColWidths(headers, rows, o, cols) ==
  LET w1    == Pass1Widths(headers, rows)
      total == TotalWidth(w1, 1, ClampPadding(o.padding), o.border # "none")
  IN  IF o.truncate /\ total > MaxWidth(o, cols)
        THEN ReduceColumns(w1, total - MaxWidth(o, cols))
        ELSE w1

\* a cell fitted to its column: the text written and the display_w the
\* padding is computed from
FitCell(str, width) ==
  IF display_width_strip_ansi(str) > width
    THEN [text |-> truncate_string(str, width),
          display_w |-> terminal_display_width(truncate_string(str, width))]
    ELSE [text |-> str, display_w |-> display_width_strip_ansi(str)]

\* the header text as written: styled when "headerStyle" is an array. The
\* header styles explored hold attributes only, for which
\* terminal_apply_style has a single result
HeaderStyled(text, o, cs) ==
  IF o.headerStyle = << >> THEN text
  ELSE CHOOSE s \in terminal_apply_style(text, o.headerStyle, cs) : TRUE

\* box->v of the border styles explored, written after each cell
BoxV(o) == IF o.border # "none" THEN <<124>> ELSE << >>

\* the header row without its newline
HeaderLine(headers, widths, o, cs) ==
  BoxV(o) \o
  Joined([i \in 1..Len(headers) |->
            LET c == FitCell(headers[i], widths[i])
            IN  Spaces(ClampPadding(o.padding)) \o HeaderStyled(c.text, o, cs)
                \o Spaces(widths[i] - c.display_w + ClampPadding(o.padding)) \o BoxV(o)])

\* pad_left and pad_right of a data cell with space columns to spare
CellPads(space, padding, align) ==
  IF align = "right" THEN [left |-> padding + space, right |-> padding]
  ELSE IF align = "center"
    THEN [left |-> padding + space \div 2, right |-> padding + space - space \div 2]
  ELSE [left |-> padding, right |-> padding + space]

\* a data row without its newline: the cells it has, up to num_cols, then
\* blank padding for the missing columns
DataLine(row, widths, o) ==
  BoxV(o) \o
  Joined([i \in 1..Len(widths) |->
            IF i <= Len(row)
              THEN LET c == FitCell(row[i], widths[i])
                       p == CellPads(widths[i] - c.display_w, ClampPadding(o.padding),
                                     o.align)
                   IN  Spaces(p.left) \o c.text \o Spaces(p.right) \o BoxV(o)
              ELSE Spaces(widths[i] + ClampPadding(o.padding) * 2) \o BoxV(o)])

\* a border line of the "ascii" style without its newline
RuleLine(widths, o) ==
  <<43>> \o
  Joined([i \in 1..Len(widths) |->
            Repeated(45, widths[i] + ClampPadding(o.padding) * 2) \o <<43>>])

\* the lines terminal_render_table writes for at least one column with the
\* column widths of pass 1, each with its kind: top border, header, separator,
\* data rows, bottom border
TableLines(headers, rows, o, widths, cs) ==
  LET rule   == IF o.border # "none"
                  THEN << [kind |-> "rule", bytes |-> RuleLine(widths, o)] >>
                  ELSE << >>
  IN  rule \o << [kind |-> "header", bytes |-> HeaderLine(headers, widths, o, cs)] >>
      \o rule
      \o [r \in 1..Len(rows) |-> [kind |-> "row", bytes |-> DataLine(rows[r], widths, o)]]
      \o rule

\* header texts: "Name", "N"
TableHeaders == { << <<78, 97, 109, 101>> >>, << <<78, 97, 109, 101>>, <<78>> >> }

\* cell texts: "x", "abcdefg", ESC "[1m" "abcdefg", two wide characters
TableCells ==
  { <<120>>, <<97, 98, 99, 100, 101, 102, 103>>,
    <<ESC, 91, 49, 109, 97, 98, 99, 100, 101, 102, 103>>,
    <<228, 184, 173, 228, 184, 173>> }

\* the rows arrays: none, one row of one cell, one row of two cells
TableRowSets ==
  { << >> } \cup { << <<c>> >> : c \in TableCells }
  \cup { << <<c, d>> >> : c \in TableCells, d \in TableCells }

\* the options arrays: "maxWidth" 0 stands for an absent one too, as neither
\* changes max_width; "headerStyle" << >> for an absent one
TableOptions ==
  [padding : {0, 1}, border : Borders, maxWidth : {0, 8, 10}, truncate : BOOLEAN,
   align : {"left", "right", "center"}, headerStyle : {<< >>, "bold" :> TRUE}]

\* Terminal::table(headers, rows, options) with at least one header: the table
\* is written through the buffer and flushed
TableCall ==
  /\ Alive /\ pc = "idle" /\ fn = "none"
  /\ \E headers \in TableHeaders, rows \in TableRowSets, o \in TableOptions :
       \E widths \in {ColWidths(headers, rows, o, cached_size[1])} :
       \E lines \in {TableLines(headers, rows, o, widths, color_support)} :
       \E done \in {OutFlush(Out(OutStart(write_buffer),
                                 Joined([k \in 1..Len(lines) |->
                                           lines[k].bytes \o <<10>>])))} :
         /\ fn_in' = [headers |-> headers, rows |-> rows, options |-> o]
         /\ fn_out' = [pass1 |-> Pass1Widths(headers, rows),
                       col_widths |-> widths, lines |-> lines]
         /\ write_buffer' = done.buf
         /\ tty_out' = done.out
  /\ fn' = "table"
  /\ last_ev' = "table"
  /\ UNCHANGED <<ctlVars, flags, original_termios, raw_termios, color_support,
                 cached_size, tty_fd, resize_pending, resize_callback, orig_sig,
                 osVars, envVars, loaderVars, barVars, writeVars, now, last_registered,
                 last_render, selVars, histVars>>

\* sizeof(truncated), the scratch buffer of the render pass, passed to
\* truncate_string as dest_size
dest_size == 256

\* the bytes truncate_string stores into dest, the terminator included:
\* strncpy fills dest_size bytes, the other branches copy what they hold and
\* one terminator without looking at dest_size
TruncateStored(src, max_width) ==
  IF max_width <= 3 THEN dest_size
  ELSE Len(truncate_string(src, max_width)) + 1

\* the bytes the render pass stores into truncated[] for one header or cell
\* of a column: none when the text fits the column
ScratchStored(str, width) ==
  IF display_width_strip_ansi(str) > width THEN TruncateStored(str, width) ELSE 0

\* n copies of a string of bytes
Copies(unit, n) == [k \in 1..(n * Len(unit)) |-> unit[((k - 1) % Len(unit)) + 1]]

\* long cells: 70 letters, and 68 mathematical bold capitals U+1D400 (four
\* bytes and one column each)
LongCells == { Copies(<<97>>, 70), Copies(<<240, 157, 144, 128>>, 68) }

\* the render pass of a one-column table with a long header or a long cell,
\* as far as the truncation of each: the column width after the shrink loop
\* and the bytes stored into truncated[] for the header and for the cell
TableTruncate ==
  /\ Alive /\ pc = "idle" /\ fn = "none"
  /\ \E header \in LongCells \cup {<<72>>}, cell \in LongCells,
        padding \in {0, 1}, border \in Borders, maxWidth \in {0, 40, 67},
        truncate \in BOOLEAN :
       LET o == [padding |-> padding, border |-> border, maxWidth |-> maxWidth,
                 truncate |-> truncate]
       IN  \E widths \in {ColWidths(<<header>>, << <<cell>> >>, o, cached_size[1])} :
             /\ fn_in' = [headers |-> <<header>>, rows |-> << <<cell>> >>,
                          options |-> o]
             /\ fn_out' = [col_widths |-> widths,
                           header_stored |-> ScratchStored(header, widths[1]),
                           cell_stored |-> ScratchStored(cell, widths[1])]
  /\ fn' = "truncate"
  /\ last_ev' = "step"
  /\ tty_out' = << >>
  /\ UNCHANGED <<ctlVars, stateVars, osVars, envVars, loaderVars, barVars, writeVars,
                 now, last_registered, last_render, selVars, histVars>>

----------------------------------------------------------------------------
(* terminal_read_key: the parse of the bytes read *)

\* strncpy(key_name, name, name_size) for a name of bytes
KeyNamed(name) == [ret |-> 1, key_name |-> name, key_char |-> << >>]

\* buf[k] of the NUL-terminated input buffer, k from 0
BufAt(buf, k) == IF k + 1 <= Len(buf) THEN buf[k + 1] ELSE 0

\* the number n of the "f%d" name for ESC [ group d ~, 0 when the case breaks:
\* group 1 names fn - 4 for fn in 5..8, group 2 names code + 9 for code in 0..4
FunctionKey(group, d) ==
  IF group = 1
    THEN (IF d >= 5 /\ d <= 8 THEN d - 4 ELSE 0)
    ELSE (IF d >= 0 /\ d <= 4 THEN d + 9 ELSE 0)

\* snprintf(key_name, name_size, "ctrl+%c", buf[0] + 'a' - 1)
CtrlKey(b) == KeyNamed(<<99, 116, 114, 108, 43>> \o <<b + 97 - 1>>)

\* the CSI switch on buf[2]: the key, or ret 0 for a case that breaks or is
\* absent
CsiKey(buf) ==
  LET c == BufAt(buf, 2)
      tilde3 == Len(buf) >= 4 /\ BufAt(buf, 3) = 126
      tilde4 == Len(buf) >= 5 /\ BufAt(buf, 4) = 126
      none == [ret |-> 0, key_name |-> << >>, key_char |-> << >>]
  IN  CASE c = 65 -> KeyNamed(<<117, 112>>)
        [] c = 66 -> KeyNamed(<<100, 111, 119, 110>>)
        [] c = 67 -> KeyNamed(<<114, 105, 103, 104, 116>>)
        [] c = 68 -> KeyNamed(<<108, 101, 102, 116>>)
        [] c = 72 -> KeyNamed(<<104, 111, 109, 101>>)
        [] c = 70 -> KeyNamed(<<101, 110, 100>>)
        [] c = 49 -> IF tilde3 THEN KeyNamed(<<104, 111, 109, 101>>)
                     ELSE IF tilde4 /\ FunctionKey(1, BufAt(buf, 3) - 48) # 0
                       THEN KeyNamed(<<102>> \o Dec(FunctionKey(1, BufAt(buf, 3) - 48)))
                     ELSE none
        [] c = 50 -> IF tilde3 THEN KeyNamed(<<105, 110, 115, 101, 114, 116>>)
                     ELSE IF tilde4 /\ FunctionKey(2, BufAt(buf, 3) - 48) # 0
                       THEN KeyNamed(<<102>> \o Dec(FunctionKey(2, BufAt(buf, 3) - 48)))
                     ELSE none
        [] c = 51 -> IF tilde3 THEN KeyNamed(<<100, 101, 108, 101, 116, 101>>) ELSE none
        [] c = 52 -> IF tilde3 THEN KeyNamed(<<101, 110, 100>>) ELSE none
        [] c = 53 -> IF tilde3 THEN KeyNamed(<<112, 97, 103, 101, 117, 112>>) ELSE none
        [] c = 54 -> IF tilde3 THEN KeyNamed(<<112, 97, 103, 101, 100, 111, 119, 110>>) ELSE none
        [] OTHER -> none

\* the SS3 switch on buf[2]
Ss3Key(buf) ==
  LET c == BufAt(buf, 2)
  IN  IF c \in 80..83 THEN KeyNamed(<<102>> \o Dec(c - 79))
      ELSE [ret |-> 0, key_name |-> << >>, key_char |-> << >>]

\* terminal_read_key after a read of nread >= 1 bytes: the return value, the
\* key name and the key character
ParseKey(buf) ==
  IF buf[1] = ESC
    THEN IF Len(buf) = 1 THEN KeyNamed(<<101, 115, 99>>)
         ELSE IF BufAt(buf, 1) = 91 /\ CsiKey(buf).ret = 1 THEN CsiKey(buf)
         ELSE IF BufAt(buf, 1) = 79 /\ Ss3Key(buf).ret = 1 THEN Ss3Key(buf)
         ELSE KeyNamed(<<101, 115, 99>>)
  ELSE IF buf[1] < 32
    THEN IF buf[1] \in {13, 10} THEN KeyNamed(<<101, 110, 116, 101, 114>>)
         ELSE IF buf[1] = 9 THEN KeyNamed(<<116, 97, 98>>)
         ELSE IF buf[1] \in {127, 8} THEN KeyNamed(<<98, 97, 99, 107, 115, 112, 97, 99, 101>>)
         ELSE CtrlKey(buf[1])
  ELSE IF buf[1] = 127 THEN KeyNamed(<<98, 97, 99, 107, 115, 112, 97, 99, 101>>)
  ELSE LET bytes == terminal_utf8_char_width(buf, 1).bytes
       IN  IF bytes > 0 /\ bytes <= 4
             THEN [ret |-> 1, key_name |-> <<99, 104, 97, 114>>,
                   key_char |-> SubSeq(buf, 1, bytes)]
             ELSE [ret |-> 1, key_name |-> << >>, key_char |-> << >>]

\* the chunks read(2) may hand over: every single byte below 0x20 and DEL,
\* ESC [ 1 d ~ and ESC [ 2 d ~ for every digit d, ESC [ A, ESC [ 3 ~, ESC O P,
\* ESC x, "a", a three-byte character
InputChunks ==
  { <<b>> : b \in 0..31 } \cup { <<127>> }
  \cup { <<ESC, 91, 49, 48 + d, 126>> : d \in 0..9 }
  \cup { <<ESC, 91, 50, 48 + d, 126>> : d \in 0..9 }
  \cup { <<ESC, 91, 65>>, <<ESC, 91, 51, 126>>, <<ESC, 79, 80>>, <<ESC, 120>>, <<97>>,
         <<228, 184, 173>> }

\* the parse of terminal_read_key applied to a chunk read from the keyboard
KeyParse ==
  /\ Alive /\ pc = "idle" /\ fn = "none"
  /\ \E buf \in InputChunks :
       /\ fn_in' = [buf |-> buf]
       /\ fn_out' = ParseKey(buf)
  /\ fn' = "key"
  /\ last_ev' = "step"
  /\ tty_out' = << >>
  /\ UNCHANGED <<ctlVars, stateVars, osVars, envVars, loaderVars, barVars, writeVars,
                 now, last_registered, last_render, selVars, histVars>>

----------------------------------------------------------------------------
(* Specifications *)

\* the main thread is outside the engine, between the two shutdown hooks, or
\* blocked in select(2) waiting for a key
Quiet == pc \in {"idle", "mshutdown", "select_wait"}

\* a step of the main thread
MainStep ==
  \/ EnterCall \/ EnterApply \/ EnterFlag \/ EnterSize \/ EnterSig
  \/ ExitCall \/ ExitCursor \/ ExitAlt \/ ExitRestore \/ ExitFlag \/ ExitSig
  \/ RShutdown \/ MShutdown
  \/ SizeCall \/ SizeClear \/ SizeCallback \/ OnResize
  \/ Cursor \/ AlternateScreen
  \/ LoaderStart \/ LoaderStop
  \/ SelectCall \/ MultiSelectCall \/ SelectDraw \/ SelectKey

\* a signal is delivered or the window is resized
SignalStep ==
  \/ DeliverSigwinch
  \/ DeliverSigint("SIGINT")
  \/ DeliverSigint("SIGTERM")
  \/ DeliverSigtstp
  \/ DeliverSigcont

\* operations and signals in sequence
Next == MainStep \/ (Quiet /\ SignalStep)

Spec == Init /\ [][Next]_vars

\* a step of mode control, of the screen primitives or of the size query
SessionStep ==
  \/ EnterCall \/ EnterApply \/ EnterFlag \/ EnterSize \/ EnterSig
  \/ ExitCall \/ ExitCursor \/ ExitAlt \/ ExitRestore \/ ExitFlag \/ ExitSig
  \/ RShutdown \/ MShutdown
  \/ SizeCall \/ SizeClear \/ SizeCallback \/ OnResize
  \/ Cursor \/ AlternateScreen

\* the session operations with signals between any two of their steps
NextAsync == SessionStep \/ SignalStep

SpecAsync == Init /\ [][NextAsync]_vars

\* buffered writes and flushes, one statement of terminal_write at a time
NextWrite == WriteCall \/ WriteCopy \/ WriteTest \/ WriteReturn \/ FlushCall

SpecWrite == Init /\ [][NextWrite]_vars

\* no ProgressBar has been made; the Loader has not been used
NoBar == ~bar_created
NoLoader == ~loader_running /\ loader_frame = 0 /\ loader_message = LoaderMessage
            /\ now = 0

\* a step of the spinner, with time passing while it runs
LoaderStep ==
  \/ LoaderStart \/ LoaderText \/ LoaderTick \/ LoaderStop
  \/ (loader_running /\ ClockAdvance)

\* a step of the progress bar
BarStep == ProgressBar \/ BarAdvance \/ BarSet \/ BarFinish

\* a step of the table or of an interactive operation
InteractiveStep ==
  \/ Table
  \/ ReadKeyCall \/ ReadKeyReturn \/ CursorPositionCall \/ CursorPositionReturn
  \/ SelectCall \/ MultiSelectCall \/ SelectDraw \/ SelectKey

\* a step of mode control or of the cursor primitive
ModeStep ==
  \/ EnterCall \/ EnterApply \/ EnterFlag \/ EnterSize \/ EnterSig
  \/ ExitCall \/ ExitCursor \/ ExitAlt \/ ExitRestore \/ ExitFlag \/ ExitSig
  \/ Cursor

\* a session: mode control and the interactive operations first, then one
\* widget, the spinner or the progress bar
NextOutput ==
  \/ (NoBar /\ NoLoader /\ (ModeStep \/ InteractiveStep))
  \/ (NoBar /\ LoaderStep)
  \/ (NoLoader /\ BarStep)

\* the spinner alone, with time passing
NextLoader == LoaderStart \/ LoaderText \/ LoaderTick \/ LoaderStop \/ ClockAdvance

SpecLoader == Init /\ [][NextLoader]_vars

\* the progress bar alone
SpecBar == Init /\ [][BarStep]_vars

SpecOutput == Init /\ [][NextOutput]_vars

\* the state a text function is called in: the initial fields of a process on
\* a terminal, and any capability an earlier session may have detected
InitText ==
  /\ InitFields /\ color_support \in ColorSupports
  /\ stdin_tty /\ stdout_tty /\ os_size = <<120, 40>>

\* the text functions, one call each
NextText ==
  StyleCall \/ ColourCall \/ WidthCall \/ ScanCall \/ TableCall \/ TableTruncate \/ KeyParse

SpecText == InitText /\ [][NextText]_vars

----------------------------------------------------------------------------
(* Claims *)

\* the process is gone: both shutdown hooks ran, or a signal ended it
ProcessEnded == pc \in {"exited", "killed"}

\* the cached size a successful TIOCGWINSZ of the current window gives
FreshSize ==
  << IF os_size[1] > 0 THEN os_size[1] ELSE 80,
     IF os_size[2] > 0 THEN os_size[2] ELSE 24 >>

\* C1: once the process has ended (shutdown hooks, or SIGINT / SIGTERM at any
\* point after enter() applied the raw settings) and no restore call failed,
\* the terminal's settings equal those it had before enter().
C1_RestoredAtProcessEnd ==
  (ProcessEnded /\ entered /\ ~restore_failed) => term = entry_termios

\* C2: when terminal_exit_raw returns 0 from raw mode, the terminal's settings
\* are those it had at the latest Cooked-to-Raw enter(), whatever suspend and
\* continue signals came in between.
C2_ExitRestoresEntrySettings ==
  last_ev = "exit_ok" => term = entry_termios

\* C2 witness: an exit from raw mode has just succeeded and the restored
\* settings differ from the raw ones
C2_Witness ==
  /\ last_ev = "exit_ok" /\ pc = "idle"
  /\ term = entry_termios /\ term # raw_termios /\ "RAW" \notin flags

\* C3 as stated: AltScreenActive or CursorHidden only while RawActive.
C3_AltCursorOnlyInRaw ==
  ("ALT_SCREEN" \in flags \/ "CURSOR_HIDDEN" \in flags) => "RAW" \in flags

\* C3 amended: whenever terminal_exit_raw returns from raw mode, with success
\* or with a failed restore, AltScreenActive and CursorHidden are clear.
C3_ExitClearsAltCursor ==
  last_ev \in {"exit_ok", "exit_failed"} =>
    ("ALT_SCREEN" \notin flags /\ "CURSOR_HIDDEN" \notin flags)

\* C3 witness: an exit from raw mode has just returned and left the
\* leave-alternate-screen sequence it wrote after its flush in the buffer
C3_Witness ==
  /\ last_ev = "exit_ok" /\ flags = {}
  /\ Len(write_buffer) > 0
  /\ write_buffer[Len(write_buffer)] = 108

\* C4: when the restore call of exit() fails, exit() reports the failure and
\* RawActive, AltScreenActive and CursorHidden are all clear on return.
C4_FailedExitClearsFlags ==
  last_ev = "exit_failed" => flags = {}

\* C5: enter() while RawActive is set and exit() while it is clear return
\* success and leave the snapshot, the raw settings, the flags, the colour
\* capability, the cached size, the saved dispositions, the terminal's
\* settings, the dispositions and the output buffer unchanged.
C5_ModeControlIdempotent ==
  [][ ((EnterCall /\ "RAW" \in flags) \/ (ExitCall /\ "RAW" \notin flags))
        => /\ last_ev' \in {"enter_noop", "exit_noop"}
           /\ pc' = "idle"
           /\ UNCHANGED <<original_termios, raw_termios, flags, color_support,
                          cached_size, orig_sig, term, sigdisp, write_buffer,
                          tty_fd, resize_pending>> ]_vars

\* C5 witness: enter() has just returned as a no-op in raw mode, with bytes
\* pending in the output buffer
C5_Witness ==
  /\ last_ev = "enter_noop" /\ "RAW" \in flags /\ pc = "idle"
  /\ Len(write_buffer) > 0

\* C6: enter() in cooked mode with an input descriptor that is no terminal
\* fails and changes nothing: no flag, no terminal setting, no snapshot, no
\* signal disposition.
C6_NotATtyChangesNothing ==
  [][ (EnterCall /\ "RAW" \notin flags /\ ~stdin_tty)
        => /\ last_ev' = "enter_notty"
           /\ pc' = "idle"
           /\ UNCHANGED <<flags, term, original_termios, raw_termios, sigdisp,
                          orig_sig, tty_fd, color_support, cached_size,
                          write_buffer, entered>> ]_vars

\* C6 witness: enter() has just failed on a non-terminal after a cursor call
\* had set a flag
C6_Witness ==
  /\ last_ev = "enter_notty" /\ ~stdin_tty /\ ~entered
  /\ original_termios = ZeroTermios /\ tty_fd = -1
  /\ flags = {"CURSOR_HIDDEN"}

\* C7: when terminal_exit_raw returns 0 from raw mode, the dispositions of the
\* five signals are those registered just before the Cooked-to-Raw enter().
C7_ExitRestoresDispositions ==
  last_ev = "exit_ok" => sigdisp = entry_sigdisp

\* C7 witness: an exit has just succeeded for a host whose own dispositions
\* are not the defaults, after a session in which the engine's were installed
C7_Witness ==
  /\ last_ev = "exit_ok" /\ pc = "idle"
  /\ sigdisp = HostDispositions /\ orig_sig = HostDispositions

C10_SigwinchOnlySetsPending ==
  [][ (DeliverSigwinch /\ sigdisp["SIGWINCH"] = "terminal_handle_sigwinch")
        => /\ resize_pending' = 1
           /\ UNCHANGED <<cached_size, flags, write_buffer, term, sigdisp,
                          original_termios, raw_termios, color_support, orig_sig,
                          resize_callback, cb_calls, pc>> ]_vars

\* C10 witness: the handler has just run in the middle of a size query, with
\* a callback registered and the cached size stale
C10_Witness ==
  /\ last_ev = "sigwinch" /\ resize_pending = 1
  /\ pc = "size_clear"
  /\ resize_callback # "UNDEF" /\ cb_calls = << >>
  /\ cached_size # FreshSize

\* C11: no signal handler writes to or flushes the output buffer: the buffer
\* and its write position are the same after a handler as before it.
C11_HandlersLeaveBuffer ==
  [][ SignalStep => write_buffer' = write_buffer ]_vars

\* C15: when terminal_exit_raw returns 0 from raw mode, the output buffer
\* holds no pending bytes: the show-cursor and leave-alternate-screen
\* sequences it wrote have been delivered.
C15_ExitLeavesNothingPending ==
  last_ev = "exit_ok" => write_buffer = << >>

\* C12: a size query made while resize_pending is set re-queries the window
\* size, then clears the flag, then invokes once the callback of the latest
\* onResize() call (none if there was no such call); a query made while the
\* flag is clear neither re-queries nor invokes anything.
C12_SizeConsumesPendingResize ==
  [][ /\ (SizeCall /\ resize_pending # 0) =>
           /\ pc' = "size_clear"
           /\ cached_size' = (IF stdout_tty THEN FreshSize ELSE cached_size)
           /\ resize_pending' = resize_pending
           /\ cb_calls' = << >>
      /\ SizeClear =>
           /\ pc' = "size_callback"
           /\ resize_pending' = 0
           /\ UNCHANGED <<cached_size, cb_calls>>
      /\ SizeCallback =>
           /\ pc' = "idle"
           /\ resize_pending = 0
           /\ cb_calls' = (IF last_registered = "UNDEF" THEN << >>
                           ELSE <<last_registered>>)
           /\ UNCHANGED <<cached_size, resize_pending>>
      /\ (SizeCall /\ resize_pending = 0) =>
           /\ pc' = "idle"
           /\ cb_calls' = << >>
           /\ UNCHANGED <<cached_size, resize_pending>> ]_vars

\* C12 witness: a size query has just consumed a pending resize: the size is
\* fresh, the flag clear, and the second callback registered was invoked once
C12_Witness ==
  /\ pc = "idle" /\ resize_pending = 0
  /\ cb_calls = <<"cb2">> /\ last_registered = "cb2"
  /\ cached_size = <<120, 40>>

\* C13: the write cursor is always between 0 and the capacity; when a
\* buffered write or a flush has returned it is below the capacity, and a
\* write, of any length, has left in the buffer what its loop leaves
C13_CursorWithinCapacity ==
  /\ Len(write_buffer) >= 0 /\ Len(write_buffer) <= WRITE_BUFFER_SIZE
  /\ (w_pc = "none" /\ last_ev \in {"write", "flush"}) =>
       Len(write_buffer) < WRITE_BUFFER_SIZE
  /\ (w_pc = "none" /\ last_ev = "write") =>
       write_buffer = TerminalWrite(w_buf0, w_arg)

\* a write longer than the capacity has returned, into a buffer that held
\* bytes already, and leaves bytes pending
C13_Witness ==
  /\ w_pc = "none" /\ last_ev = "write"
  /\ Len(w_arg) > WRITE_BUFFER_SIZE
  /\ Len(w_buf0) > 0 /\ Len(write_buffer) > 0

\* the main thread waits for input: in readKey(), in cursorPosition(), in the
\* key read of select() / multiSelect()
InputWait == pc \in {"readkey_wait", "cursorpos_wait", "select_wait"}

\* the latest step was a call of table(), of a progress bar method or of a
\* spinner method, returned
RenderCallReturned ==
  last_ev \in {"table", "table_empty", "bar_new", "bar_advance", "bar_set",
               "bar_finish", "loader_start", "loader_text", "loader_tick",
               "loader_stop"}

\* C14 as stated: nothing is pending when a key read or a cursor-position
\* query starts waiting, nor when any table render, progress-bar frame or
\* finish, spinner frame or stop returns
C14_NothingPendingAtReturn ==
  /\ InputWait => write_buffer = << >>
  /\ RenderCallReturned => write_buffer = << >>

\* C14, amended: nothing is pending when a key read or a cursor-position
\* query starts waiting, nor when a table, progress bar or spinner call that
\* wrote anything returns
C14_NothingPendingAfterRender ==
  /\ InputWait => write_buffer = << >>
  /\ (RenderCallReturned /\ tty_out # << >>) => write_buffer = << >>

\* readKey() waits in raw mode, and what exit() had left pending went out
\* with its flush
C14_Witness ==
  /\ pc = "readkey_wait" /\ "RAW" \in flags
  /\ tty_out = SeqCursorShow /\ write_buffer = << >>

\* an interactive operation is called with RAW clear
CookedInteractiveCall ==
  /\ "RAW" \notin flags
  /\ ReadKeyCall \/ CursorPositionCall \/ SelectCall \/ MultiSelectCall

\* the errors of the interactive operations called without raw mode
NotRawErrors ==
  {"readkey_not_raw", "cursorpos_not_raw", "select_not_raw", "multiselect_not_raw"}

\* C16: readKey, cursorPosition, select and multiSelect called with RAW clear
\* fail with an error and do nothing else: the call does not get to wait for
\* or read input, nothing is written to the buffer or handed to write(2),
\* and the flags, the terminal and the engine's state are as before
C16_CookedInteractiveFails ==
  [][ CookedInteractiveCall =>
        /\ last_ev' \in NotRawErrors
        /\ pc' = "idle" /\ ~InputWait'
        /\ write_buffer' = write_buffer /\ tty_out' = << >>
        /\ flags' = flags
        /\ UNCHANGED <<stateVars, osVars, selVars>> ]_vars

\* select() has failed after exit(), and the bytes exit() left pending are
\* still pending
C16_Witness ==
  /\ last_ev = "select_not_raw" /\ pc = "idle"
  /\ entered /\ "RAW" \notin flags /\ write_buffer = SeqCursorShow

\* C17: once advance(step) or set(n) has returned, whatever the total and the
\* arguments, 0 <= current <= total
C17_CurrentWithinTotal ==
  (bar_created /\ last_ev \in {"bar_advance", "bar_set"}) =>
    (0 <= bar_current /\ bar_current <= bar_total)

\* C18: finish() on an unfinished bar sets current to total and marks the bar
\* finished; on a finished bar advance(), set() and finish() leave current,
\* total and finished as they are, write nothing to the buffer and hand
\* nothing to write(2)
C18_FinishedIsAbsorbing ==
  [][ /\ (BarFinish /\ ~bar_finished) =>
           (bar_finished' /\ bar_current' = bar_total /\ bar_total' = bar_total
            /\ tty_out' # << >>)
      /\ ((BarAdvance \/ BarSet \/ BarFinish) /\ bar_finished) =>
           (/\ UNCHANGED <<bar_current, bar_total, bar_finished, write_buffer>>
            /\ tty_out' = << >>) ]_vars

\* a bar of total 3 was finished, and a set() called after that has returned
\* without moving it
C18_Witness ==
  /\ bar_finished /\ last_ev = "bar_set"
  /\ bar_total = 3 /\ bar_current = 3

\* C19: tick() on a running spinner renders a frame and moves the frame index
\* on by one exactly when 60 ms or more have passed since the latest frame
\* was rendered, by start(), tick() or text(); otherwise it changes nothing
\* and hands nothing to write(2)
C19_TickRendersAfterFrameTime ==
  [][ (LoaderTick /\ loader_running) =>
        IF ElapsedUs(now, last_render) >= SPINNER_FRAME_TIME
          THEN loader_frame' = loader_frame + 1 /\ tty_out' # << >>
          ELSE /\ UNCHANGED <<loaderVars, flags, write_buffer>>
               /\ tty_out' = << >> ]_vars

\* C20: on a spinner that is not running, tick() and text() hand nothing to
\* write(2) and leave the frame index and the buffer alone, and stop() changes
\* nothing at all; start() then makes it running and renders frame 0, the
\* next frame being frame 1; start() on a running spinner changes nothing
C20_RendersOnlyWhileRunning ==
  [][ /\ ((LoaderTick \/ LoaderText) /\ ~loader_running) =>
           (/\ tty_out' = << >>
            /\ UNCHANGED <<loader_frame, loader_running, loader_last_frame,
                           write_buffer, flags>>)
      /\ (LoaderStop /\ ~loader_running) =>
           (tty_out' = << >> /\ UNCHANGED <<loaderVars, write_buffer, flags>>)
      /\ (LoaderStart /\ ~loader_running) =>
           (/\ loader_running' /\ loader_frame' = 1
            /\ tty_out' = write_buffer \o SeqCursorHide \o SeqEraseLine
                            \o SpinnerFrame(0) \o <<32>> \o loader_message
            /\ write_buffer' = << >>)
      /\ (LoaderStart /\ loader_running) =>
           (tty_out' = << >> /\ UNCHANGED <<loaderVars, write_buffer, flags>>) ]_vars

\* a spinner that ran and was stopped is ticked a full frame time after its
\* last frame, and nothing comes out
C20_Witness ==
  /\ last_ev = "loader_tick" /\ ~loader_running /\ loader_frame > 0
  /\ ElapsedUs(now, loader_last_frame) >= SPINNER_FRAME_TIME
  /\ tty_out = << >>

\* C27: in every reachable state a terminal that reports true colour also
\* reports 256 colours, and one that reports 256 colours also reports colour
C27_CapabilityLevelsNest ==
  /\ SupportsTrueColor => Supports256Color
  /\ Supports256Color => SupportsColor

\* a session has detected true colour, so all three queries answer true
C27_Witness ==
  entered /\ color_support = "COLOR_TRUECOLOR"
  /\ SupportsTrueColor /\ Supports256Color /\ SupportsColor

\* C28: the cached size is positive in both dimensions whatever the OS reported
C28_CachedSizePositive == cached_size[1] >= 1 /\ cached_size[2] >= 1

\* a raw session on a terminal whose size query succeeded and reported 0
\* columns and 0 rows: the cache holds the defaults
C28_Witness ==
  "RAW" \in flags /\ stdout_tty /\ os_size = <<0, 0>> /\ cached_size = <<80, 24>>

\* C29: a terminal_write of n bytes onto p pending bytes has issued, when it
\* returns, exactly (p + n) \div capacity write(2) calls of exactly capacity
\* bytes each (none when p + n is below the capacity); a flush has issued one
\* call carrying all the pending bytes and left the cursor at zero, and no call
\* when nothing was pending
C29_SyscallsOnlyWhenFull ==
  /\ last_ev = "write" =>
       /\ Len(w_sys) = (Len(w_buf0) + Len(w_arg)) \div WRITE_BUFFER_SIZE
       /\ \A i \in 1..Len(w_sys) : w_sys[i] = WRITE_BUFFER_SIZE
  /\ last_ev = "flush" =>
       /\ w_sys = (IF Len(w_buf0) > 0 THEN << Len(w_buf0) >> ELSE << >>)
       /\ Len(write_buffer) = 0

\* a write of more than twice the capacity onto pending bytes has returned
\* after two syscalls
C29_Witness ==
  /\ last_ev = "write" /\ Len(w_buf0) > 0 /\ Len(w_arg) > 2 * WRITE_BUFFER_SIZE - Len(w_buf0)
  /\ Len(w_sys) >= 2

\* a flush with nothing pending has returned
C29_WitnessEmptyFlush == last_ev = "flush" /\ Len(w_buf0) = 0 /\ w_sys = << >>

\* the colour under key resolves: the key is present and terminal_parse_color
\* cannot return -1 for it
Resolves(styles, key, is_bg) ==
  key \in DOMAIN styles
  /\ ParseFailed \notin terminal_parse_color(styles[key], is_bg, color_support)

\* the codes of the attributes that are present and true, in the order bold,
\* dim, italic, underline, blink, reverse, separated by ";"
TrueAttributeCodes(styles) ==
  LET on == SelectSeq(StyleAttributes,
                      LAMBDA a : a.key \in DOMAIN styles /\ styles[a.key])
  IN  Joined([i \in 1..Len(on) |->
                IF i = 1 THEN on[i].code ELSE <<59>> \o on[i].code])

\* C21: style(text, options) returns exactly text when no option contributes a
\* code (no option at all, attributes all false, colours that do not resolve);
\* when no colour resolves and some attribute is true, text is wrapped with
\* the attribute codes only
C21_NoCodeNoWrap ==
  (fn = "style" /\ ~Resolves(fn_in.styles, "fg", FALSE)
                /\ ~Resolves(fn_in.styles, "bg", TRUE)) =>
    IF TrueAttributeCodes(fn_in.styles) = << >>
      THEN fn_out = fn_in.text
      ELSE fn_out = <<ESC, 91>> \o TrueAttributeCodes(fn_in.styles) \o <<109>>
                    \o fn_in.text \o <<ESC, 91, 48, 109>>

\* style("x", {fg: "purple", bold: true}) returned ESC [ 1 m x ESC [ 0 m
C21_Witness ==
  /\ fn = "style" /\ fn_in.text = <<120>>
  /\ fn_in.styles = ("fg" :> Str(<<112, 117, 114, 112, 108, 101>>)) @@ ("bold" :> TRUE)
  /\ fn_out = <<ESC, 91, 49, 109, 120, ESC, 91, 48, 109>>

\* style("x", {fg: "purple", bold: false}) returned "x"
C21_WitnessPlain ==
  /\ fn = "style" /\ fn_in.text = <<120>>
  /\ fn_in.styles = ("fg" :> Str(<<112, 117, 114, 112, 108, 101>>)) @@ ("bold" :> FALSE)
  /\ fn_out = <<120>>

\* C22: with the colour capability None, style(text, {fg: "red"}) returns text
\* unchanged
C22_NoneEmitsNoColour ==
  (fn = "style" /\ color_support = "COLOR_NONE"
   /\ fn_in.styles = ("fg" :> Str(<<114, 101, 100>>))) =>
    fn_out = fn_in.text

\* the SGR code of the palette entry a string names, case folded: -1 if none
PaletteCode(name, is_bg) ==
  LET hits == { i \in 1..Len(color_map) : StrCaseEq(name, color_map[i].name) }
  IN  IF hits = {} THEN -1
      ELSE LET cm == color_map[CHOOSE i \in hits : TRUE]
           IN  IF is_bg THEN cm.bg_code ELSE cm.fg_code

\* C23: a palette name given as the only key resolves to its fixed code
\* whatever its case and whatever the capability: style(t, {fg: "RED"}) is
\* ESC [ 31 m t ESC [ 0 m, style(t, {bg: "Blue"}) is ESC [ 44 m t ESC [ 0 m,
\* and every name explored is wrapped with its palette entry's code
C23_NamedColourFixedCode ==
  fn = "style" =>
    /\ \A key \in {"fg", "bg"} :
         (DOMAIN fn_in.styles = {key} /\ fn_in.styles[key] \in NameColours) =>
           /\ PaletteCode(fn_in.styles[key].val, key = "bg") \in
                (IF key = "fg" THEN 30..37 \cup 90..97 \cup {39}
                               ELSE 40..47 \cup 100..107 \cup {49})
           /\ fn_out = <<ESC, 91>> \o Dec(PaletteCode(fn_in.styles[key].val, key = "bg"))
                       \o <<109>> \o fn_in.text \o <<ESC, 91, 48, 109>>
    /\ fn_in.styles = ("fg" :> Str(<<82, 69, 68>>)) =>
         fn_out = <<ESC, 91, 51, 49, 109>> \o fn_in.text \o <<ESC, 91, 48, 109>>
    /\ fn_in.styles = ("bg" :> Str(<<66, 108, 117, 101>>)) =>
         fn_out = <<ESC, 91, 52, 52, 109>> \o fn_in.text \o <<ESC, 91, 48, 109>>

\* before any enter(), at capability None, style("x", {fg: "RED"}) returned
\* ESC [ 31 m x ESC [ 0 m
C23_Witness ==
  /\ fn = "style" /\ ~entered /\ color_support = "COLOR_NONE"
  /\ fn_in.styles = ("fg" :> Str(<<82, 69, 68>>)) /\ fn_in.text = <<120>>
  /\ fn_out = <<ESC, 91, 51, 49, 109, 120, ESC, 91, 48, 109>>

\* C24: a string that is neither a palette name nor '#' with exactly 3 or 6
\* hex digits, and an array that is not three elements at keys 0, 1, 2, does
\* not resolve: given as the only key it contributes no code and style
\* returns the text
C24_MalformedColourFails ==
  (fn = "style" /\ \E key \in {"fg", "bg"} :
      DOMAIN fn_in.styles = {key} /\ fn_in.styles[key] \in BadStrings \cup BadArrays) =>
    fn_out = fn_in.text

\* the string holds ESC immediately followed by '['
HasCsi(str) == \E i \in 1..(Len(str) - 1) : str[i] = ESC /\ str[i + 1] = 91

TableLineWidth(widths, o) ==
  TotalWidth(widths, 1, ClampPadding(o.padding), o.border # "none")

\* C26: every header and data line of a rendered table has the same visible
\* width, escape sequences ignored: the sum of the column widths with twice
\* the padding each, plus one border character per column and one more
C26_LinesSameVisibleWidth ==
  fn = "table" =>
    \A k \in 1..Len(fn_out.lines) :
      fn_out.lines[k].kind \in {"header", "row"} =>
        display_width_strip_ansi(fn_out.lines[k].bytes)
          = TableLineWidth(fn_out.col_widths, fn_in.options)

\* C30: pass 1 gives each column the larger of its header's display width and
\* the ANSI-stripped display width of each of its cells
C30_Pass1UsesStrippedWidth ==
  fn = "table" =>
    \A i \in 1..Len(fn_in.headers) :
      fn_out.pass1[i] =
        SetMax({terminal_display_width(fn_in.headers[i])} \cup
               { display_width_strip_ansi(fn_in.rows[r][i]) :
                   r \in { q \in 1..Len(fn_in.rows) : i <= Len(fn_in.rows[q]) } })

\* the table of the latest call was wider than the available width with
\* truncation enabled
TableTooWide ==
  /\ fn_in.options.truncate
  /\ TableLineWidth(fn_out.pass1, fn_in.options) > MaxWidth(fn_in.options, cached_size[1])

\* C31: when truncation is enabled and the table is wider than the available
\* width, the shrink loop ends with the total width at most the available one
\* or with every column at most 3 wide; no column grows, no column that
\* started wider than 3 ends below 3; the columns it took from end at the
\* final maximum or one below it, and one that ends one below has only
\* narrower-or-equal columns before it (the first of the widest is the one
\* decremented); otherwise no column width changes
C31_ShrinkLoop ==
  fn = "table" =>
    LET w0 == fn_out.pass1
        w  == fn_out.col_widths
        n  == Len(w0)
        m  == SetMax({ w[i] : i \in 1..n })
    IN  IF TableTooWide
          THEN /\ \/ TableLineWidth(w, fn_in.options)
                       <= MaxWidth(fn_in.options, cached_size[1])
                  \/ \A i \in 1..n : w[i] <= 3
               /\ \A i \in 1..n : w[i] <= w0[i] /\ (w0[i] > 3 => w[i] >= 3)
               /\ \A j \in 1..n : w[j] < w0[j] =>
                    /\ w[j] \in {m - 1, m}
                    /\ w[j] = m - 1 => \A i \in 1..(j - 1) : w[i] <= m - 1
          ELSE w = w0

\* two columns 7 wide shrunk by 7: the first one was taken from four times,
\* the second three times
C31_Witness ==
  fn = "table" /\ TableTooWide /\ fn_out.pass1 = <<7, 7>> /\ fn_out.col_widths = <<3, 4>>

\* the key names "f" n for n in a set, and "esc"
FunctionKeyNames(ns) == { <<102>> \o Dec(n) : n \in ns } \cup { <<101, 115, 99>> }

\* the chunk is ESC [ g d ~ with g the byte of "1" or "2" and d a digit
IsFunctionChunk(buf, g) ==
  Len(buf) = 5 /\ buf[1] = ESC /\ buf[2] = 91 /\ buf[3] = g /\ buf[4] \in 48..57
  /\ buf[5] = 126

C34_CtrlLetter ==
  (fn = "key" /\ Len(fn_in.buf) = 1 /\ fn_in.buf[1] < 32
   /\ fn_in.buf[1] \notin {ESC, 13, 10, 9, 8}) =>
    /\ fn_out.key_name = <<99, 116, 114, 108, 43, 96 + fn_in.buf[1]>>
    /\ 96 + fn_in.buf[1] \in 97..122

\* the header row laid out as a data row is: each header cell padded
\* according to the configured alignment
AlignedHeaderLine(headers, widths, o, cs) ==
  BoxV(o) \o
  Joined([i \in 1..Len(headers) |->
            LET c == FitCell(headers[i], widths[i])
                p == CellPads(widths[i] - c.display_w, ClampPadding(o.padding),
                              o.align)
            IN  Spaces(p.left) \o HeaderStyled(c.text, o, cs) \o Spaces(p.right)
                \o BoxV(o)])

\* C32: the header line of a rendered table places each header cell by the
\* configured alignment of its column, as the data cells are placed: right
\* alignment puts the spare columns on the left, centre splits them with the
\* extra one on the right
C32_HeaderFollowsAlignment ==
  fn = "table" =>
    \A k \in 1..Len(fn_out.lines) :
      fn_out.lines[k].kind = "header" =>
        fn_out.lines[k].bytes
          = AlignedHeaderLine(fn_in.headers, fn_out.col_widths, fn_in.options,
                              color_support)

\* the bytes a lead byte announces: 1 for ASCII, 2 to 4 for the multi-byte
\* leads, 0 for a byte that is no lead
LeadLength(b) ==
  IF b < 128 THEN 1
  ELSE IF b \in 192..223 THEN 2
  ELSE IF b \in 224..239 THEN 3
  ELSE IF b \in 240..247 THEN 4
  ELSE 0

\* the passes of one measuring loop over text obey the decode-step bounds and
\* leave the read position at the end of text
ScanWellFormed(text, passes) ==
  /\ \A k \in 1..Len(passes) :
       LET p == passes[k]
           remaining == Len(text) - p.pos + 1
       IN  /\ p.bytes >= 1 /\ p.bytes <= remaining
           /\ p.kind = "char" =>
                /\ p.bytes <= Min(4, remaining)
                /\ p.width \in {0, 1, 2}
                /\ (LeadLength(text[p.pos]) = 0 \/ LeadLength(text[p.pos]) > remaining)
                     => p.bytes = 1 /\ p.width = 1
  /\ Len(passes) <= Len(text)
  /\ ScanEnd(passes) = Len(text) + 1

\* C40: each decode step consumes at least 1 and at most min(4, remaining)
\* bytes and yields width 0, 1 or 2; an invalid lead byte, or a multi-byte
\* lead with too few bytes after it, consumes exactly 1 byte with width 1;
\* the loops of displayWidth and of the stripped width make at most one pass
\* per byte and end with the read position exactly at the end of the string,
\* unterminated escape sequences included
C40_DecodeStepBounded ==
  fn = "scan" =>
    /\ ScanWellFormed(fn_in.text, fn_out.passes)
    /\ ScanWellFormed(fn_in.text, fn_out.stripped_passes)

\* the three-byte lead 0xE4 followed by one byte only: two passes of one
\* byte and width 1 each, the read position left after the second byte
C40_Witness ==
  /\ fn = "scan" /\ fn_in.text = <<228, 184>>
  /\ Len(fn_out.passes) = 2 /\ fn_out.display = 2
  /\ ScanEnd(fn_out.stripped_passes) = 3

\* the stripped width of an unterminated escape sequence: one pass to the end
C40_WitnessUnterminated ==
  /\ fn = "scan" /\ fn_in.text = <<ESC, 91, 51, 228>>
  /\ Len(fn_out.stripped_passes) = 1 /\ fn_out.stripped = 0
  /\ ScanEnd(fn_out.stripped_passes) = 5

\* the basic codes a colour may take: 30..37 and 90..97 as foreground, 40..47
\* and 100..107 as background
Basic16Codes(is_bg) ==
  IF is_bg THEN (40..47) \cup (100..107) ELSE (30..37) \cup (90..97)

\* C35: for channel values r, g, b in 0..255 the TrueColor fragment carries
\* r, g, b themselves, the Extended256 fragment carries the index
\* 16 + 36*(r/51) + 6*(g/51) + (b/51), which lies in 16..231, the Basic16
\* fragment is a code in 30..37 or 90..97 (foreground), 40..47 or 100..107
\* (background), and the array, the "#rrggbb" string and the "#rgb" string of
\* the same colour give the same fragment
C35_RgbFragments ==
  fn = "colour" =>
    LET r == fn_in.r
        g == fn_in.g
        b == fn_in.b
        lead == Dec(IF fn_in.is_bg THEN 48 ELSE 38)
        q == 16 + 36 * (r \div 51) + 6 * (g \div 51) + (b \div 51)
    IN  /\ Cardinality(fn_out.rgb) = 1
        /\ fn_out.hex = fn_out.rgb
        /\ ShortHexStrings(r, g, b) # {} => fn_out.short = fn_out.rgb
        /\ \A res \in fn_out.rgb :
             /\ res.ret = Len(res.buf)
             /\ color_support = "COLOR_TRUECOLOR" =>
                  res.buf = lead \o <<59, 50, 59>> \o Dec(r) \o <<59>> \o Dec(g)
                            \o <<59>> \o Dec(b)
             /\ color_support = "COLOR_256" =>
                  /\ q \in 16..231
                  /\ res.buf = lead \o <<59, 53, 59>> \o Dec(q)
             /\ color_support \in {"COLOR_16", "COLOR_NONE"} =>
                  \E n \in Basic16Codes(fn_in.is_bg) : res.buf = Dec(n)

\* white at 256 colours, written "#fff": the fragment "38;5;231"
C35_Witness ==
  /\ fn = "colour" /\ color_support = "COLOR_256"
  /\ fn_in = [r |-> 255, g |-> 255, b |-> 255, is_bg |-> FALSE]
  /\ fn_out.short = {Parsed(<<51, 56, 59, 53, 59, 50, 51, 49>>)}

\* C38: in a table render the bytes stored into the 256-byte scratch buffer
\* for a truncated header or cell, the ellipsis and the terminator included,
\* never exceed 256
C38_ScratchWithinBuffer ==
  fn = "truncate" =>
    /\ fn_out.header_stored <= dest_size
    /\ fn_out.cell_stored <= dest_size

\* the bytes of the current call's string that its loop has taken so far
WriteConsumed == SubSeq(w_arg, 1, Len(w_arg) - Len(w_str))

\* C37: at every point of a buffered write or a flush, the bytes the call has
\* delivered to the terminal followed by the bytes pending in the buffer are
\* the bytes pending when the call began followed by the bytes of the string
\* taken so far, in order: nothing is lost, duplicated or reordered, also for
\* strings longer than the buffer
C37_DeliveredThenPending ==
  /\ w_out \o write_buffer = w_buf0 \o WriteConsumed
  /\ Len(write_buffer) <= WRITE_BUFFER_SIZE
  /\ w_pc = "none" => w_str = << >>

\* a write longer than twice the capacity onto a non-empty buffer has
\* returned: two full buffers delivered, the rest pending
C37_Witness ==
  /\ last_ev = "write" /\ Len(w_arg) > 2 * WRITE_BUFFER_SIZE /\ Len(w_buf0) > 0
  /\ Len(w_out) = 2 * WRITE_BUFFER_SIZE /\ Len(write_buffer) > 0

\* C36: no resize is lost. While Raw with the window-change handler
\* installed, once a size query has handled a pending resize and called the
\* registered callback, whenever no resize is pending and no size query is in
\* progress the cached dimensions are those terminal_update_size gives for
\* the OS dimensions as of the last window-change signal
C36_NoResizeLost ==
  ( /\ "RAW" \in flags /\ pc = "idle"
    /\ sigdisp["SIGWINCH"] = "terminal_handle_sigwinch"
    /\ cb_calls # << >>
    /\ resize_pending = 0 )
  => cached_size = UpdateSize(cached_size, stdout_tty, os_size)
\* C39: in select() and multiSelect(), when the key read reports an error the
\* loop ends: it does not go back to drawing the options
C39_ErrorEndsLoop == last_ev = "select_error" => pc # "select_draw"

\* C39, the index: while the loop runs the highlighted index is within
\* 0..numOptions-1
C39_IndexInRange ==
  pc \in {"select_draw", "select_wait"} => sel_cur \in 0..(sel_n - 1)
====
